---- MODULE Spec2Model ----
(***************************************************************************)
(* JSON-SQLParser: the SQL-like query engines over in-memory JSON tables.  *)
(*                                                                         *)
(* The repository holds several variants of the engine.  The ones modelled *)
(* here are                                                                *)
(*   U_  the "UNIFIED SQL SELECT ENGINE"          src/chatgpt.js  1..540   *)
(*   A_  the join / WHERE / hint engine           src/index.js    1..294   *)
(*   X_  the single-function engine               src/bindex.js            *)
(*   K_  the window / GROUP BY engine             src/backup.js            *)
(* Query texts are TLA+ strings handled character by character, as the     *)
(* code handles them; indexes are 0-based as in JavaScript.  An operator   *)
(* that needs an intermediate value more than once takes it as a           *)
(* parameter of a helper operator.                                         *)
(***************************************************************************)
EXTENDS Integers, Sequences, FiniteSets, TLC

(***************************************************************************)
(* JavaScript string primitives                                            *)
(***************************************************************************)
MinOf(S) == CHOOSE m \in S : \A o \in S : m <= o
MaxOf(S) == CHOOSE m \in S : \A o \in S : m >= o
MinOr(S, d) == IF S = {} THEN d ELSE MinOf(S)
MaxOr(S, d) == IF S = {} THEN d ELSE MaxOf(S)
Lo(a, b) == IF a <= b THEN a ELSE b
Hi(a, b) == IF a >= b THEN a ELSE b

\* s[i]; "" stands for the undefined of an index out of range
CharAt(s, i) == IF i >= 0 /\ i < Len(s) THEN SubSeq(s, i + 1, i + 1) ELSE ""

\* the characters of s from index a up to index b, for 0 <= a and b <= s.length
Sub(s, a, b) == IF a >= b THEN "" ELSE SubSeq(s, a + 1, b)

\* a bound of slice brought into 0..n: a negative bound counts from the end
Clamp(x, n) == IF x < 0 THEN Hi(n + x, 0) ELSE Lo(x, n)

\* String.prototype.slice(a, b) and slice(a)
Slice(s, a, b)  == Sub(s, Clamp(a, Len(s)), Clamp(b, Len(s)))
SliceFrom(s, a) == Sub(s, Clamp(a, Len(s)), Len(s))

UpperChars == "ABCDEFGHIJKLMNOPQRSTUVWXYZ"
LowerChars == "abcdefghijklmnopqrstuvwxyz"
DigitChars == "0123456789"
WordChars  == "0123456789ABCDEFGHIJKLMNOPQRSTUVWXYZ_abcdefghijklmnopqrstuvwxyz"
Spaces     == {" ", "\n", "\t"}
Quotes     == {"'", "\""}

\* the characters of an alphabet
CharsOf(alphabet) == {SubSeq(alphabet, i, i) : i \in 1..Len(alphabet)}

\* the 1-based position of a character in an alphabet, 0 when it is not in it
PosIn(c, alphabet) == MinOr({i \in 1..Len(alphabet) : SubSeq(alphabet, i, i) = c}, 0)

\* the case mappings, letter by letter
LowerOf == [c \in CharsOf(UpperChars) |-> SubSeq(LowerChars, PosIn(c, UpperChars), PosIn(c, UpperChars))]
UpperOf == [c \in CharsOf(LowerChars) |-> SubSeq(UpperChars, PosIn(c, LowerChars), PosIn(c, LowerChars))]

LowerChar(c) == IF c \in DOMAIN LowerOf THEN LowerOf[c] ELSE c
UpperChar(c) == IF c \in DOMAIN UpperOf THEN UpperOf[c] ELSE c

\* a character-wise map of a string, by halves
RECURSIVE toLowerCase(_)
toLowerCase(s) ==
    IF Len(s) <= 1 THEN LowerChar(s)
    ELSE toLowerCase(SubSeq(s, 1, Len(s) \div 2)) \o toLowerCase(SubSeq(s, Len(s) \div 2 + 1, Len(s)))

RECURSIVE toUpperCase(_)
toUpperCase(s) ==
    IF Len(s) <= 1 THEN UpperChar(s)
    ELSE toUpperCase(SubSeq(s, 1, Len(s) \div 2)) \o toUpperCase(SubSeq(s, Len(s) \div 2 + 1, Len(s)))

\* the characters matched by \s, \d and \w
DigitSet == CharsOf(DigitChars)
WordSet  == CharsOf(WordChars)

IsSpace(c) == c \in Spaces
IsDigit(c) == c \in DigitSet
IsWord(c)  == c \in WordSet

\* the first index >= j that holds no white space (what \s* consumes from j)
RECURSIVE skipSpaces(_, _)
skipSpaces(s, j) == IF IsSpace(CharAt(s, j)) THEN skipSpaces(s, j + 1) ELSE j

\* the first index >= j that holds no \w character (what \w* consumes from j)
RECURSIVE skipWord(_, _)
skipWord(s, j) == IF IsWord(CharAt(s, j)) THEN skipWord(s, j + 1) ELSE j

trimStart(s) == Sub(s, skipSpaces(s, 0), Len(s))

RECURSIVE trimEnd(_)
trimEnd(s) == IF s # "" /\ IsSpace(CharAt(s, Len(s) - 1))
              THEN trimEnd(SubSeq(s, 1, Len(s) - 1)) ELSE s

trim(s) == trimEnd(trimStart(s))

\* String.prototype.startsWith(pat, i)
startsWith(s, pat, i) ==
    i >= 0 /\ i + Len(pat) <= Len(s) /\ SubSeq(s, i + 1, i + Len(pat)) = pat

\* String.prototype.indexOf(pat, from): -1 when absent
indexOfFrom(s, pat, from) ==
    MinOr({i \in from..(Len(s) - Len(pat)) : startsWith(s, pat, i)}, -1)

indexOf(s, pat)  == indexOfFrom(s, pat, 0)
includes(s, pat) == \E i \in 0..(Len(s) - Len(pat)) : startsWith(s, pat, i)

\* String.prototype.split(sep) for a literal separator; i is the index of the first
\* separator
RECURSIVE split(_, _)
RECURSIVE splitAt(_, _, _)
split(s, sep) == splitAt(s, sep, indexOf(s, sep))
splitAt(s, sep, i) ==
    IF i = -1 THEN <<s>>
    ELSE <<Sub(s, 0, i)>> \o split(Sub(s, i + Len(sep), Len(s)), sep)

\* array.pop() of a split: the last piece
Last(seq) == seq[Len(seq)]

\* texts.join(sep)
RECURSIVE joinTexts(_, _)
joinTexts(texts, sep) ==
    IF texts = <<>> THEN ""
    ELSE IF Len(texts) = 1 THEN texts[1]
    ELSE texts[1] \o sep \o joinTexts(Tail(texts), sep)

\* array.reverse()
Reverse(seq) == [i \in 1..Len(seq) |-> seq[Len(seq) + 1 - i]]

\* s.split('.').pop()
lastSegment(s) == Sub(s, MaxOr({i + 1 : i \in {k \in 0..(Len(s) - 1) : CharAt(s, k) = "."}}, 0), Len(s))

\* s.replace(/x/g, "") for a set of single characters
RECURSIVE removeChars(_, _)
removeChars(s, cs) ==
    IF Len(s) <= 1 THEN (IF s \in cs THEN "" ELSE s)
    ELSE removeChars(SubSeq(s, 1, Len(s) \div 2), cs)
             \o removeChars(SubSeq(s, Len(s) \div 2 + 1, Len(s)), cs)

\* the parenthesis depth the scanners hold at index i (the character at i counted)
depthAt(s, i) ==
    Cardinality({j \in 0..i : CharAt(s, j) = "("}) -
    Cardinality({j \in 0..i : CharAt(s, j) = ")"})

\* the pieces of a depth-aware scan that cuts at the commas outside parentheses
\* (the loops of parseSQL and splitArgs), from index i on; the last piece is kept
\* even when empty; cut is the index of the next such comma
RECURSIVE commaPieces(_, _)
RECURSIVE commaPiecesAt(_, _, _)
commaPieces(s, i) ==
    commaPiecesAt(s, i, MinOr({k \in i..(Len(s) - 1) : CharAt(s, k) = "," /\ depthAt(s, k) = 0}, -1))
commaPiecesAt(s, i, cut) ==
    IF cut = -1 THEN <<Sub(s, i, Len(s))>>
    ELSE <<Sub(s, i, cut)>> \o commaPieces(s, cut + 1)

\* text.split(/\s+/) of a trimmed text; cut is the index of the first white space
RECURSIVE splitSpaces(_)
RECURSIVE splitSpacesAt(_, _)
splitSpaces(s) == splitSpacesAt(s, MinOr({i \in 0..(Len(s) - 1) : IsSpace(CharAt(s, i))}, -1))
splitSpacesAt(s, cut) ==
    IF cut = -1 THEN <<s>>
    ELSE <<Sub(s, 0, cut)>> \o splitSpaces(Sub(s, skipSpaces(s, cut), Len(s)))

MapSeq(f(_), seq) == [i \in 1..Len(seq) |-> f(seq[i])]

RECURSIVE SetToSeq(_)
SetToSeq(S) == IF S = {} THEN <<>> ELSE <<MinOf(S)>> \o SetToSeq(S \ {MinOf(S)})

RECURSIVE Flatten(_)
Flatten(seqs) == IF seqs = <<>> THEN <<>> ELSE Head(seqs) \o Flatten(Tail(seqs))

(***************************************************************************)
(* JavaScript values: numbers (rationals n/d), strings, null, undefined,   *)
(* NaN.  One record shape for all of them.                                 *)
(***************************************************************************)
RECURSIVE Gcd(_, _)
Gcd(a, b) == IF b = 0 THEN a ELSE Gcd(b, a % b)
Abs(a)    == IF a < 0 THEN -a ELSE a

Num(n)     == [t |-> "num", n |-> n, d |-> 1, s |-> ""]
Reduced(n, d, g) == [t |-> "num", n |-> n \div g, d |-> d \div g, s |-> ""]
Frac(n, d) == Reduced(n, d, Gcd(Abs(n), d))
Str(s)     == [t |-> "str", n |-> 0, d |-> 1, s |-> s]
Null       == [t |-> "null", n |-> 0, d |-> 1, s |-> ""]
Undefined  == [t |-> "undef", n |-> 0, d |-> 1, s |-> ""]
NaN        == [t |-> "nan", n |-> 0, d |-> 1, s |-> ""]

\* row[key]: undefined for a key the object does not have
Get(row, key) == IF key \in DOMAIN row THEN row[key] ELSE Undefined

\* { ...a, ...b }
Spread(a, b) == [k \in DOMAIN a \cup DOMAIN b |-> IF k \in DOMAIN b THEN b[k] ELSE a[k]]

\* o[key] = v
Put(o, key, v) == [k \in DOMAIN o \cup {key} |-> IF k = key THEN v ELSE o[k]]

EmptyRow == [k \in {} |-> Undefined]

RECURSIVE natToString(_)
natToString(n) ==
    IF n < 10 THEN SubSeq(DigitChars, n + 1, n + 1)
    ELSE natToString(n \div 10) \o SubSeq(DigitChars, (n % 10) + 1, (n % 10) + 1)

intToString(n) == IF n < 0 THEN "-" \o natToString(-n) ELSE natToString(n)

\* String(v).  A non-integer number is written n/d: the model never prints one.
String(v) ==
    CASE v.t = "num"   -> IF v.d = 1 THEN intToString(v.n)
                          ELSE intToString(v.n) \o "/" \o intToString(v.d)
      [] v.t = "str"   -> v.s
      [] v.t = "null"  -> "null"
      [] v.t = "undef" -> "undefined"
      [] OTHER         -> "NaN"

DigitOf == [c \in DigitSet |-> PosIn(c, DigitChars) - 1]

RECURSIVE digitsToNat(_, _)
digitsToNat(s, acc) ==
    IF s = "" THEN acc ELSE digitsToNat(Tail(s), acc * 10 + DigitOf[Head(s)])

AllDigits(s) == s # "" /\ \A i \in 1..Len(s) : IsDigit(SubSeq(s, i, i))

\* Number(text) of a trimmed text: the decimal integers, "" as 0, anything else NaN
trimmedToNumber(x) ==
    IF x = "" THEN Num(0)
    ELSE IF AllDigits(x) THEN Num(digitsToNat(x, 0))
    ELSE IF Head(x) = "-" /\ AllDigits(Tail(x)) THEN Num(-digitsToNat(Tail(x), 0))
    ELSE NaN

stringToNumber(s) == trimmedToNumber(trim(s))

\* Number(v)
Number(v) ==
    CASE v.t = "num"  -> v
      [] v.t = "str"  -> stringToNumber(v.s)
      [] v.t = "null" -> Num(0)
      [] OTHER        -> NaN

isNaN(v) == Number(v).t = "nan"

\* v ?? w
Nullish(v)     == v.t \in {"null", "undef"}
Coalesce(v, w) == IF Nullish(v) THEN w ELSE v

\* the truthiness of a value
Truthy(v) ==
    CASE v.t = "num" -> v.n # 0
      [] v.t = "str" -> v.s # ""
      [] OTHER       -> FALSE

\* numbers compared as rationals
NumLt(a, b) == a.n * b.d < b.n * a.d
NumEq(a, b) == a.n * b.d = b.n * a.d
NumAdd(a, b) == Frac(a.n * b.d + b.n * a.d, a.d * b.d)

\* x < y and x == y of two results of Number: NaN is neither less nor equal
NumbersLt(x, y) == x.t = "num" /\ y.t = "num" /\ NumLt(x, y)
NumbersEq(x, y) == x.t = "num" /\ y.t = "num" /\ NumEq(x, y)

\* the order of the UTF-16 code units of the characters the model uses
CodeOrder == " !\"$'()*,-./0123456789:;<=>ABCDEFGHIJKLMNOPQRSTUVWXYZ_abcdefghijklmnopqrstuvwxyz|"
CodeRank  == [c \in CharsOf(CodeOrder) |-> PosIn(c, CodeOrder)]

RECURSIVE StrLt(_, _)
StrLt(a, b) ==
    IF b = "" THEN FALSE
    ELSE IF a = "" THEN TRUE
    ELSE IF Head(a) = Head(b) THEN StrLt(Tail(a), Tail(b))
    ELSE CodeRank[Head(a)] < CodeRank[Head(b)]

\* a < b: two strings by code units, anything else as numbers
JsLt(a, b) ==
    IF a.t = "str" /\ b.t = "str" THEN StrLt(a.s, b.s) ELSE NumbersLt(Number(a), Number(b))

\* a == b (loose equality)
JsLooseEq(a, b) ==
    IF a.t = "nan" \/ b.t = "nan" THEN FALSE
    ELSE IF Nullish(a) \/ Nullish(b) THEN Nullish(a) /\ Nullish(b)
    ELSE IF a.t = "str" /\ b.t = "str" THEN a.s = b.s
    ELSE NumbersEq(Number(a), Number(b))

(***************************************************************************)
(* U: the parser of the unified engine (src/chatgpt.js 108..200)           *)
(***************************************************************************)
NoClause     == [has |-> FALSE, text |-> ""]
Clause(text) == [has |-> TRUE, text |-> text]

\* findTop: the first index at parenthesis depth 0 where the keyword starts
U_findTopIn(sql, l, kw) ==
    MinOr({i \in 0..(Len(sql) - 1) : startsWith(l, kw, i) /\ depthAt(sql, i) = 0}, -1)

U_findTop(sql, kw) == U_findTopIn(sql, toLowerCase(sql), toLowerCase(kw))

\* raw.match(/(.+) as (.+)/i): the index of the last " as " with text on both sides,
\* or -1
asIndexIn(l) == MaxOr({i \in 1..(Len(l) - 5) : startsWith(l, " as ", i)}, -1)
asIndex(raw) == asIndexIn(toLowerCase(raw))

AggNames == {"sum", "avg", "count", "min", "max"}

\* /^(sum|avg|count|min|max)\(/i
isAggIn(l)      == \E f \in AggNames : startsWith(l, f \o "(", 0)
isAggExpr(expr) == isAggIn(toLowerCase(Sub(expr, 0, Lo(6, Len(expr)))))

\* /over\s*\(/i
isWinIn(l) ==
    \E i \in 0..(Len(l) - 1) : startsWith(l, "over", i) /\ CharAt(l, skipSpaces(l, i + 4)) = "("
isWinExpr(expr) == isWinIn(toLowerCase(expr))

\* expr.match(/(\w+)\((.*)\)/): [ok, fn, args].  \w+ runs from index i to the "(" at
\* index open; .* is greedy, so args runs to the last ")"
NoCall == [ok |-> FALSE, fn |-> "", args |-> ""]

callOk(expr, i, open) ==
    /\ open > i
    /\ CharAt(expr, open) = "("
    /\ \E k \in (open + 1)..(Len(expr) - 1) : CharAt(expr, k) = ")"

callAt(expr, i, open) ==
    [ok   |-> TRUE,
     fn   |-> Sub(expr, i, open),
     args |-> Sub(expr, open + 1, MaxOf({k \in (open + 1)..(Len(expr) - 1) : CharAt(expr, k) = ")"}))]

callFrom(expr, i) == IF i = -1 THEN NoCall ELSE callAt(expr, i, skipWord(expr, i))

\* the match from the first index that can start one; only index 0 can when the
\* expression is anchored with ^
callMatch(expr, anchored) ==
    callFrom(expr, MinOr({i \in 0..(IF anchored THEN 0 ELSE Len(expr) - 1) :
                             callOk(expr, i, skipWord(expr, i))}, -1))

\* parseToken; ok is FALSE where the code reads mm[1] of a null match and throws
U_tokenAgg(expr, alias, isAgg, mm) ==
    [ok      |-> ~isAgg \/ mm.ok,
     expr    |-> expr,
     alias   |-> alias,
     isAgg   |-> isAgg,
     aggFunc |-> IF isAgg /\ mm.ok THEN toLowerCase(mm.fn) ELSE "",
     aggAll  |-> isAgg /\ mm.ok /\ mm.args = "*",
     aggCol  |-> IF isAgg /\ mm.ok /\ mm.args # "*" THEN mm.args ELSE "",
     isWin   |-> isWinExpr(expr)]

U_tokenOf(expr, alias) == U_tokenAgg(expr, alias, isAggExpr(expr), callMatch(expr, TRUE))

U_tokenPlain(expr) == U_tokenOf(expr, lastSegment(expr))

U_tokenAt(raw, m) ==
    IF m # -1 THEN U_tokenOf(trim(Sub(raw, 0, m)), trim(Sub(raw, m + 4, Len(raw))))
    ELSE U_tokenPlain(trim(raw))

U_parseToken(raw) == U_tokenAt(raw, asIndex(raw))

\* joinRegex = /(inner|left|right|full)?\s*(outer)?\s*join\s+/ig on the lower-cased
\* text l.  joinEnd: "join\s+" at index j, the index after it, 0 when it does not match
JoinKinds == <<"inner", "left", "right", "full">>

joinEnd(l, j) ==
    IF startsWith(l, "join", j) /\ IsSpace(CharAt(l, j + 4)) THEN skipSpaces(l, j + 4) ELSE 0

\* (outer)?\s*join\s+ at index j
joinTailFrom(l, j) ==
    IF startsWith(l, "outer", j) /\ joinEnd(l, skipSpaces(l, j + 5)) > 0
    THEN joinEnd(l, skipSpaces(l, j + 5))
    ELSE joinEnd(l, j)

\* \s*(outer)?\s*join\s+ at index j
joinTail(l, j) == joinTailFrom(l, skipSpaces(l, j))

\* the first kind with which the expression matches at index i, 0 when there is none
joinKindAt(l, i) ==
    MinOr({k \in 1..Len(JoinKinds) :
              startsWith(l, JoinKinds[k], i) /\ joinTail(l, i + Len(JoinKinds[k])) > 0}, 0)

NoJoinMatch == [ok |-> FALSE, index |-> -1, kind |-> "", end |-> 0]

joinMatchWith(l, i, k) ==
    IF k > 0
    THEN [ok |-> TRUE, index |-> i, kind |-> JoinKinds[k], end |-> joinTail(l, i + Len(JoinKinds[k]))]
    ELSE [ok |-> TRUE, index |-> i, kind |-> "", end |-> joinTail(l, i)]

joinMatchAt(l, i) == IF i = -1 THEN NoJoinMatch ELSE joinMatchWith(l, i, joinKindAt(l, i))

\* joinRegex.exec with lastIndex = from: [ok, index, kind, end]
joinExec(l, from) ==
    joinMatchAt(l, MinOr({i \in from..(Len(l) - 1) : joinKindAt(l, i) > 0 \/ joinTail(l, i) > 0}, -1))

\* chunk.split(/\son\s/i): the index of the first white space, "on", white space; -1
\* when there is none
onIndexIn(l) ==
    MinOr({i \in 0..(Len(l) - 4) :
              IsSpace(CharAt(l, i)) /\ startsWith(l, "on", i + 1) /\ IsSpace(CharAt(l, i + 3))}, -1)
onIndex(chunk) == onIndexIn(toLowerCase(chunk))

\* one joinDefs entry; [table, cond] are the first two pieces of the split, and ok is
\* FALSE where cond is undefined and cond.trim() throws
U_joinDefCut(kind, table, rest, on2) ==
    [ok    |-> TRUE,
     type  |-> IF kind = "" THEN "inner" ELSE kind,
     table |-> table,
     cond  |-> trim(IF on2 = -1 THEN rest ELSE Sub(rest, 0, on2))]

U_joinDefCond(kind, table, rest) == U_joinDefCut(kind, table, rest, onIndex(rest))

U_joinDefOn(kind, chunk, on) ==
    IF on = -1 THEN [ok |-> FALSE, type |-> kind, table |-> trim(chunk), cond |-> ""]
    ELSE U_joinDefCond(kind, trim(Sub(chunk, 0, on)), Sub(chunk, on + 4, Len(chunk)))

U_joinDef(kind, chunk) == U_joinDefOn(kind, chunk, onIndex(chunk))

\* the while loop over joinRegex.exec: the join definitions from lastIndex on.  match
\* is the exec of the loop condition, next the exec inside the body
RECURSIVE U_joinDefs(_, _, _)
RECURSIVE U_joinDefsAt(_, _, _)
RECURSIVE U_joinDefsNext(_, _, _, _)
U_joinDefs(fromPart, l, lastIndex) == U_joinDefsAt(fromPart, l, joinExec(l, lastIndex))
U_joinDefsAt(fromPart, l, match) ==
    IF ~match.ok THEN <<>> ELSE U_joinDefsNext(fromPart, l, match, joinExec(l, match.end))
U_joinDefsNext(fromPart, l, match, next) ==
    IF next.ok
    THEN <<U_joinDef(match.kind, trim(Sub(fromPart, match.end, next.index)))>>
             \o U_joinDefs(fromPart, l, next.index)
    ELSE <<U_joinDef(match.kind, trim(Sub(fromPart, match.end, Len(fromPart))))>>

\* sql.match(/with\s*\(([^)]+)\)/i): [ok, index, end, inner]
NoHint == [ok |-> FALSE, index |-> -1, end |-> 0, inner |-> ""]

hintOk(l, i, open) ==
    /\ startsWith(l, "with", i)
    /\ CharAt(l, open) = "("
    /\ indexOfFrom(l, ")", open + 1) > open + 1

U_hintSpan(sql, i, open, close) ==
    [ok |-> TRUE, index |-> i, end |-> close + 1, inner |-> Sub(sql, open + 1, close)]

U_hintOpen(sql, i, open) == U_hintSpan(sql, i, open, indexOfFrom(sql, ")", open + 1))

U_hintAt(sql, l, i) == IF i = -1 THEN NoHint ELSE U_hintOpen(sql, i, skipSpaces(l, i + 4))

U_hintIn(sql, l) ==
    U_hintAt(sql, l, MinOr({i \in 0..(Len(l) - 1) : hintOk(l, i, skipSpaces(l, i + 4))}, -1))

U_hintMatch(sql) == U_hintIn(sql, toLowerCase(sql))

trimLower(h) == toLowerCase(trim(h))

\* /^distinct\s+/i on the select list, and the list without it
isDistinct(raw) ==
    toLowerCase(Sub(raw, 0, Lo(8, Len(raw)))) = "distinct" /\ IsSpace(CharAt(raw, 8))
stripDistinct(raw) == IF isDistinct(raw) THEN Sub(raw, skipSpaces(raw, 8), Len(raw)) ELSE raw

\* end(x): the first clause index after x, sql.length when there is none
U_end(x, w, g, o, l, n) == MinOr({i \in {w, g, o, l} : i > x}, n)

\* the record parseSQL returns (sIdx and fIdx are kept for the properties)
U_planOf(sql, hints, s, f, w, g, o, l, selectRaw, tokens, base, joins) ==
    [ok       |-> (\A i \in 1..Len(tokens) : tokens[i].ok)
                        /\ (\A i \in 1..Len(joins) : joins[i].ok),
     sIdx     |-> s,
     fIdx     |-> f,
     tokens   |-> tokens,
     base     |-> base,
     joins    |-> joins,
     where    |-> IF w # -1 THEN Clause(trim(Slice(sql, w + 5, U_end(w, w, g, o, l, Len(sql))))) ELSE NoClause,
     groupBy  |-> IF g # -1 THEN Clause(trim(Slice(sql, g + 8, U_end(g, w, g, o, l, Len(sql))))) ELSE NoClause,
     orderBy  |-> IF o # -1 THEN Clause(trim(Slice(sql, o + 8, U_end(o, w, g, o, l, Len(sql))))) ELSE NoClause,
     hasLimit |-> l # -1,
     limit    |-> IF l # -1 THEN stringToNumber(SliceFrom(sql, l + 5)) ELSE Null,
     hints    |-> hints,
     distinct |-> isDistinct(selectRaw)]

U_base(fromPart, first) ==
    trim(IF first.ok THEN Sub(fromPart, 0, first.index) ELSE fromPart)

U_planFrom(sql, hints, s, f, w, g, o, l, selectRaw, fromPart, fromLower) ==
    U_planOf(sql, hints, s, f, w, g, o, l, selectRaw,
             MapSeq(U_parseToken, commaPieces(stripDistinct(selectRaw), 0)),
             U_base(fromPart, joinExec(fromLower, 0)),
             U_joinDefs(fromPart, fromLower, 0))

U_planParts(sql, hints, s, f, w, g, o, l, selectRaw, fromPart) ==
    U_planFrom(sql, hints, s, f, w, g, o, l, selectRaw, fromPart, toLowerCase(fromPart))

U_planAt(sql, hints, s, f, w, g, o, l) ==
    U_planParts(sql, hints, s, f, w, g, o, l,
                trim(Slice(sql, s + 6, f)),
                trim(Slice(sql, f + 4, U_end(f, w, g, o, l, Len(sql)))))

U_planIn(sql, l, hints) ==
    U_planAt(sql, hints,
             U_findTopIn(sql, l, "select"), U_findTopIn(sql, l, "from"),
             U_findTopIn(sql, l, "where"), U_findTopIn(sql, l, "group by"),
             U_findTopIn(sql, l, "order by"), U_findTopIn(sql, l, "limit"))

U_planClean(sql, hints) == U_planIn(sql, toLowerCase(sql), hints)

U_planHinted(sql0, hints) ==
    IF hints.ok
    THEN U_planClean(trim(Sub(sql0, 0, hints.index) \o Sub(sql0, hints.end, Len(sql0))),
                     MapSeq(trimLower, split(hints.inner, ",")))
    ELSE U_planClean(trim(sql0), <<>>)

\* parseSQL of the unified engine
U_parseSQL(sql0) == U_planHinted(sql0, U_hintMatch(sql0))

(***************************************************************************)
(* The dataset: a mapping of table names to row sequences.  A resolved     *)
(* path is the dataset itself, one of its tables, undefined or null.       *)
(***************************************************************************)
RefScope      == [kind |-> "scope", name |-> ""]
RefTable(t)   == [kind |-> "table", name |-> t]
RefUndefined  == [kind |-> "undefined", name |-> ""]
RefNull       == [kind |-> "null", name |-> ""]

\* cur?.[key]: a table of the dataset; undefined below a table (the model's column
\* and table names are no array properties) and below undefined
Member(cur, key, db) ==
    IF cur.kind = "scope" /\ key \in DOMAIN db THEN RefTable(key) ELSE RefUndefined

\* resolvePath of the unified engine: the loop over path.split('.')
RECURSIVE U_resolveParts(_, _, _)
U_resolveParts(parts, cur, db) ==
    IF parts = <<>> THEN cur
    ELSE IF cur.kind = "scope" /\ Head(parts) \in {"data", "root"}
         THEN U_resolveParts(Tail(parts), cur, db)
         ELSE U_resolveParts(Tail(parts), Member(cur, Head(parts), db), db)

U_resolvePath(path, db) ==
    IF path = "" THEN RefNull ELSE U_resolveParts(split(path, "."), RefScope, db)

\* the rows of a resolved table; no rows for anything else
TableRows(ref, db) == IF ref.kind = "table" THEN db[ref.name] ELSE <<>>

(***************************************************************************)
(* U: the join stage (src/chatgpt.js 214..246)                             *)
(***************************************************************************)
\* [lKey, rKey] = j.cond.split('=').map(x => x.trim()); a missing rKey is undefined,
\* and row[undefined] reads the property named "undefined"
condKeysOf(parts) ==
    [l |-> trim(parts[1]), r |-> IF Len(parts) >= 2 THEN trim(parts[2]) ELSE "undefined"]
condKeys(cond) == condKeysOf(split(cond, "="))

U_keysMatch(leftRow, rightRow, keys) ==
    String(Get(leftRow, keys.l)) = String(Get(rightRow, keys.r))

\* the indexes of the right rows a left row matches
U_matchesOf(leftRow, rightData, keys) ==
    {ri \in 1..Len(rightData) : U_keysMatch(leftRow, rightData[ri], keys)}

\* the forEach over the left rows without the push of a left row that matched nothing
U_joinLeftPushMatched(leftRow, rightData, type, ms) ==
    [k \in 1..Len(ms) |-> Spread(leftRow, rightData[ms[k]])]

\* what the forEach over the left rows pushes for one left row with the matches ms
U_joinLeftPush(leftRow, rightData, type, ms) ==
    IF ms # <<>> THEN [k \in 1..Len(ms) |-> Spread(leftRow, rightData[ms[k]])]
    ELSE IF type \in {"left", "full"} THEN <<leftRow>>
    ELSE <<>>

U_joinLeftRow(leftRow, rightData, keys, type) ==
    U_joinLeftPush(leftRow, rightData, type, SetToSeq(U_matchesOf(leftRow, rightData, keys)))

\* matchedRight after the first loop
U_matchedRight(rows, rightData, keys) ==
    UNION {U_matchesOf(rows[li], rightData, keys) : li \in 1..Len(rows)}

\* what the second loop pushes: the right rows no left row matched
U_joinRightPush(rightData, rest) == [k \in 1..Len(rest) |-> rightData[rest[k]]]

U_joinRightRest(rows, rightData, keys, type) ==
    IF type \in {"right", "full"}
    THEN U_joinRightPush(rightData, SetToSeq((1..Len(rightData)) \ U_matchedRight(rows, rightData, keys)))
    ELSE <<>>

U_joinRows(rows, rightData, keys, type) ==
    Flatten([li \in 1..Len(rows) |-> U_joinLeftRow(rows[li], rightData, keys, type)])
        \o U_joinRightRest(rows, rightData, keys, type)

\* one iteration of the loop over p.joins
U_join(rows, j, db) ==
    U_joinRows(rows, TableRows(U_resolvePath(j.table, db), db), condKeys(j.cond), j.type)

(***************************************************************************)
(* U: the WHERE stage (src/chatgpt.js 86..103, 250)                        *)
(***************************************************************************)
\* the first match of /\s+word\s+/i in the lower-cased text l: the index of the white
\* space the match starts at, -1 when there is none
sepOk(l, word, i, j) ==
    IsSpace(CharAt(l, i)) /\ startsWith(l, word, j) /\ IsSpace(CharAt(l, j + Len(word)))

sepIndex(l, word) ==
    MinOr({i \in 0..(Len(l) - 1) : sepOk(l, word, i, skipSpaces(l, i))}, -1)

\* the index after the match that starts at i
sepEnd(l, word, i) == skipSpaces(l, skipSpaces(l, i) + Len(word))

\* s.split(/\s+word\s+/i); l is s in lower case
RECURSIVE splitOnWordIn(_, _, _)
RECURSIVE splitOnWordAt(_, _, _, _)
RECURSIVE splitOnWordCut(_, _, _, _, _)
splitOnWordIn(s, l, word) == splitOnWordAt(s, l, word, sepIndex(l, word))
splitOnWordAt(s, l, word, i) ==
    IF i = -1 THEN <<s>> ELSE splitOnWordCut(s, l, word, i, sepEnd(l, word, i))
splitOnWordCut(s, l, word, i, e) ==
    <<Sub(s, 0, i)>> \o splitOnWordIn(Sub(s, e, Len(s)), Sub(l, e, Len(l)), word)

splitOnWord(s, word) == splitOnWordIn(s, toLowerCase(s), word)

\* the operator alternatives in the order the regular expression tries them
U_condOps == <<"=", "!=", ">", "<", ">=", "<=">>

\* the first alternative of ops that matches at index q with a character left after
\* it: its position in ops, 0 when there is none.  l is the text the alternatives are
\* matched on: the part itself, or the part in lower case under the flag i
opAt(l, q, ops) ==
    MinOr({k \in 1..Len(ops) : startsWith(l, ops[k], q) /\ q + Len(ops[k]) < Len(l)}, 0)

NoCond == [ok |-> FALSE, col |-> "", op |-> "", val |-> ""]

\* \s*(.+) on the rest after the operator: the white space gives back one character
\* when nothing else is left
condVal(rest, t) == IF t = "" THEN Sub(rest, Len(rest) - 1, Len(rest)) ELSE t

condRest(part, n, op, rest) ==
    [ok |-> TRUE, col |-> Sub(part, 0, n), op |-> op, val |-> condVal(rest, trimStart(rest))]

condOp(part, n, q, len) ==
    condRest(part, n, Sub(part, q, q + len), Sub(part, q + len, Len(part)))

condAt(part, l, ops, n, q) == condOp(part, n, q, Len(ops[opAt(l, q, ops)]))

condFrom(part, l, ops, n) ==
    IF n = -1 THEN NoCond ELSE condAt(part, l, ops, n, skipSpaces(part, n))

\* part.match(/(.+?)\s*(ops)\s*(.+)/): the shortest column text after which, white
\* space skipped, an operator matches: [ok, col, op, val]
condMatchIn(part, l, ops) ==
    condFrom(part, l, ops, MinOr({n \in 1..(Len(part) - 1) : opAt(l, skipSpaces(part, n), ops) > 0}, -1))

condMatch(part, ops) == condMatchIn(part, part, ops)

\* a <= b
JsLe(a, b) ==
    IF a.t = "str" /\ b.t = "str" THEN ~StrLt(b.s, a.s)
    ELSE NumbersLt(Number(a), Number(b)) \/ NumbersEq(Number(a), Number(b))

\* the chain of comparisons of evaluateCondition
U_compare(op, rv, val) ==
    CASE op = "="  -> JsLooseEq(rv, val)
      [] op = "!=" -> ~JsLooseEq(rv, val)
      [] op = ">"  -> JsLt(val, rv)
      [] op = "<"  -> JsLt(rv, val)
      [] op = ">=" -> JsLe(val, rv)
      [] op = "<=" -> JsLe(rv, val)
      [] OTHER     -> TRUE

\* if (!isNaN(rv) && !isNaN(val)) { rv = Number(rv); val = Number(val); }
U_evalValues(op, rv, val) ==
    IF ~isNaN(rv) /\ ~isNaN(val) THEN U_compare(op, Number(rv), Number(val))
    ELSE U_compare(op, rv, val)

U_evalMatch(row, m) ==
    IF ~m.ok THEN TRUE
    ELSE U_evalValues(m.op, Get(row, trim(m.col)), Str(removeChars(m.val, Quotes)))

\* one AND part of evaluateCondition
U_evalPart(row, part) == U_evalMatch(row, condMatch(part, U_condOps))

U_evalParts(row, parts) == \A i \in 1..Len(parts) : U_evalPart(row, parts[i])

\* evaluateCondition(row, clause); a null or empty clause keeps every row
U_evaluateCondition(row, clause) ==
    IF ~clause.has \/ clause.text = "" THEN TRUE
    ELSE U_evalParts(row, splitOnWord(clause.text, "and"))

\* rows.filter(r => evaluateCondition(r, p.where))
U_where(rows, clause) == SelectSeq(rows, LAMBDA r : U_evaluateCondition(r, clause))

(***************************************************************************)
(* U: the function registry (src/chatgpt.js 38..57)                        *)
(***************************************************************************)
\* v != null && v !== 'NULL'
U_isValue(v) == ~Nullish(v) /\ v # Str("NULL")

U_valid(vals) == SelectSeq(vals, U_isValue)

\* a + Number(b || 0); the accumulator starts as the number 0 and stays a number
plusNumberOf(a, x) == IF a.t = "nan" \/ x.t = "nan" THEN NaN ELSE NumAdd(a, x)
plusNumber(a, b)   == plusNumberOf(a, Number(IF Truthy(b) THEN b ELSE Num(0)))

RECURSIVE sumFrom(_, _)
sumFrom(vals, acc) == IF vals = <<>> THEN acc ELSE sumFrom(Tail(vals), plusNumber(acc, Head(vals)))

\* Math.min (sign 1) / Math.max (sign -1) of numbers: NaN when one of them is NaN
leastIn(nums, sign) ==
    IF \E x \in nums : x.t = "nan" THEN NaN
    ELSE CHOOSE m \in nums : \A x \in nums : IF sign = 1 THEN ~NumLt(x, m) ELSE ~NumLt(m, x)

leastOf(vals, sign) == leastIn({Number(vals[i]) : i \in 1..Len(vals)}, sign)

avgOf(n, t) == IF n = 0 THEN Num(0) ELSE IF t.t = "nan" THEN NaN ELSE Frac(t.n, t.d * n)
leastOr(v, sign) == IF v = <<>> THEN Str("NULL") ELSE leastOf(v, sign)
firstArg(args) == IF args = <<>> THEN Undefined ELSE args[1]

U_sum(vals)   == sumFrom(U_valid(vals), Num(0))
U_count(vals) == Num(Len(U_valid(vals)))
U_avg(vals)   == avgOf(Len(U_valid(vals)), sumFrom(U_valid(vals), Num(0)))
U_min(vals)   == leastOr(U_valid(vals), 1)
U_max(vals)   == leastOr(U_valid(vals), -1)
U_upper(args) == Str(toUpperCase(String(Coalesce(firstArg(args), Str("")))))
U_lower(args) == Str(toLowerCase(String(Coalesce(firstArg(args), Str("")))))

\* args.find(v => v !== null && v !== undefined && v !== 'NULL' && v !== '') ?? 'NULL'
coalesceAt(args, i) == IF i = 0 THEN Str("NULL") ELSE args[i]
U_coalesce(args) ==
    coalesceAt(args, MinOr({i \in 1..Len(args) : U_isValue(args[i]) /\ args[i] # Str("")}, 0))

\* the keys of sqlFunctions
U_functionNames == {"upper", "lower", "coalesce", "sum", "count", "avg", "min", "max"}

\* sqlFunctions[name](args)
U_sqlFunctions(name, args) ==
    CASE name = "upper"    -> U_upper(args)
      [] name = "lower"    -> U_lower(args)
      [] name = "coalesce" -> U_coalesce(args)
      [] name = "sum"      -> U_sum(args)
      [] name = "count"    -> U_count(args)
      [] name = "avg"      -> U_avg(args)
      [] name = "min"      -> U_min(args)
      [] name = "max"      -> U_max(args)

(***************************************************************************)
(* U: the GROUP BY stage (src/chatgpt.js 252..269)                         *)
(***************************************************************************)
\* array.join(sep): null and undefined are written as the empty string
joinText(v) == IF Nullish(v) THEN "" ELSE String(v)

RECURSIVE joinWith(_, _)
joinWith(vals, sep) ==
    IF vals = <<>> THEN ""
    ELSE IF Len(vals) = 1 THEN joinText(vals[1])
    ELSE joinText(vals[1]) \o sep \o joinWith(Tail(vals), sep)

\* text.split(',').map(x => x.trim())
columnList(text) == MapSeq(trim, split(text, ","))

\* keys.map(c => r[c]).join('|')
U_groupKey(r, keys) == joinWith([i \in 1..Len(keys) |-> Get(r, keys[i])], "|")

\* a property name that is an array index: such keys are enumerated first, in
\* ascending numeric order, by Object.values, Object.entries and Object.keys
IsIndexKey(k) == AllDigits(k) /\ (k = "0" \/ Head(k) # "0") /\ Len(k) <= 9

\* the key enumerated first: the least index key, else the key inserted first
firstKey(keys, firstSeen, idx) ==
    IF idx # {} THEN CHOOSE k \in idx : \A o \in idx : digitsToNat(k, 0) <= digitsToNat(o, 0)
    ELSE CHOOSE k \in keys : \A o \in keys : firstSeen[k] <= firstSeen[o]

\* the order in which the keys of an object are enumerated, for keys inserted in the
\* order of firstSeen (key -> position of insertion)
RECURSIVE objectKeyOrder(_, _)
RECURSIVE objectKeyOrderFrom(_, _, _)
objectKeyOrder(keys, firstSeen) ==
    IF keys = {} THEN <<>>
    ELSE objectKeyOrderFrom(keys, firstSeen, firstKey(keys, firstSeen, {k \in keys : IsIndexKey(k)}))
objectKeyOrderFrom(keys, firstSeen, next) ==
    <<next>> \o objectKeyOrder(keys \ {next}, firstSeen)

\* the bucket keys of the rows (texts[i] is the key text of row i), in the enumeration
\* order of the object that holds the buckets
bucketOrder(texts) ==
    objectKeyOrder({texts[i] : i \in 1..Len(texts)},
                   [k \in {texts[i] : i \in 1..Len(texts)} |->
                       MinOf({i \in 1..Len(texts) : texts[i] = k})])

\* the indexes of the rows of the bucket k, in row order
membersOf(texts, k) == SetToSeq({i \in 1..Len(texts) : texts[i] = k})

\* what one row pushes on groups[k].aggs[alias]: one entry for every aggregate token
\* with this alias
U_aggPushed(r, aggTokens) ==
    [i \in 1..Len(aggTokens) |->
        IF aggTokens[i].aggCol # "" THEN Get(r, aggTokens[i].aggCol) ELSE Num(1)]

\* groups[k].aggs[alias] after the loop over the rows
U_aggValues(rows, members, tokens, alias) ==
    Flatten([m \in 1..Len(members) |->
                U_aggPushed(rows[members[m]], SelectSeq(tokens, LAMBDA t : t.isAgg /\ t.alias = alias))])

\* o[t.alias] = sqlFunctions[t.aggFunc](g.aggs[t.alias]) for every aggregate token
RECURSIVE U_setAggs(_, _, _, _, _)
U_setAggs(o, rows, members, tokens, rest) ==
    IF rest = <<>> THEN o
    ELSE IF Head(rest).isAgg
    THEN U_setAggs(Put(o, Head(rest).alias,
                       U_sqlFunctions(Head(rest).aggFunc,
                                      U_aggValues(rows, members, tokens, Head(rest).alias))),
                   rows, members, tokens, Tail(rest))
    ELSE U_setAggs(o, rows, members, tokens, Tail(rest))

\* the row of one bucket: its first row with the aggregates set
U_groupRow(rows, members, tokens) == U_setAggs(rows[members[1]], rows, members, tokens, tokens)

U_groupRows(rows, tokens, texts, order) ==
    [g \in 1..Len(order) |-> U_groupRow(rows, membersOf(texts, order[g]), tokens)]

U_groupTexts(rows, tokens, texts) == U_groupRows(rows, tokens, texts, bucketOrder(texts))

U_groupKeys(rows, tokens, keys) ==
    U_groupTexts(rows, tokens, [i \in 1..Len(rows) |-> U_groupKey(rows[i], keys)])

U_groupBy(rows, groupBy, tokens) == U_groupKeys(rows, tokens, columnList(groupBy))

(***************************************************************************)
(* Sorting.  Array.prototype.sort is stable; with a consistent comparator  *)
(* the element at index i lands behind the elements that compare before it *)
(* and the equal elements that precede it.                                 *)
(***************************************************************************)
sortAhead(seq, before(_, _), i) ==
    {j \in 1..Len(seq) : before(seq[j], seq[i]) \/ (j < i /\ ~before(seq[i], seq[j]))}

sort(seq, before(_, _)) ==
    [p \in 1..Len(seq) |->
        seq[CHOOSE i \in 1..Len(seq) : Cardinality(sortAhead(seq, before, i)) = p - 1]]

\* array.slice(a, b) of a sequence
SubRows(seq, lo, hi) == IF hi <= lo THEN <<>> ELSE SubSeq(seq, lo + 1, hi)
sliceSeq(seq, a, b)  == SubRows(seq, Clamp(a, Len(seq)), Clamp(b, Len(seq)))

\* the collation order of the characters the model uses: punctuation and symbols,
\* then digits, then letters; case is a tie-break only
CollationOrder == " _-,;:!.'\"()*/|$<=>0123456789abcdefghijklmnopqrstuvwxyz"
CollationRank  == [c \in CharsOf(CollationOrder) |-> PosIn(c, CollationOrder)]

RECURSIVE foldedLt(_, _)
foldedLt(a, b) ==
    IF b = "" THEN FALSE
    ELSE IF a = "" THEN TRUE
    ELSE IF Head(a) = Head(b) THEN foldedLt(Tail(a), Tail(b))
    ELSE CollationRank[Head(a)] < CollationRank[Head(b)]

\* equal but for case: the lower-case letter sorts first at the first difference
RECURSIVE caseLt(_, _)
caseLt(a, b) ==
    IF a = "" \/ b = "" THEN FALSE
    ELSE IF Head(a) = Head(b) THEN caseLt(Tail(a), Tail(b))
    ELSE Head(a) = LowerChar(Head(a))

localeLtIn(a, b, la, lb) == IF la = lb THEN caseLt(a, b) ELSE foldedLt(la, lb)

\* a.localeCompare(b) < 0
localeLt(a, b) == localeLtIn(a, b, toLowerCase(a), toLowerCase(b))

(***************************************************************************)
(* U: ORDER BY, LIMIT, final SELECT, DISTINCT, hints                       *)
(* (src/chatgpt.js 271..338)                                               *)
(***************************************************************************)
\* the comparator of rows.sort on the values of the column: negative when a goes
\* before b
U_orderValues(av, bv, desc) ==
    IF ~isNaN(av) /\ ~isNaN(bv)
    THEN IF desc THEN NumLt(Number(bv), Number(av)) ELSE NumLt(Number(av), Number(bv))
    ELSE IF desc THEN localeLt(String(bv), String(av)) ELSE localeLt(String(av), String(bv))

U_orderBefore(a, b, c, desc) == U_orderValues(Get(a, c), Get(b, c), desc)

\* const [c, d] = p.orderBy.split(/\s+/)
U_orderWords(rows, words) ==
    sort(rows, LAMBDA a, b : U_orderBefore(a, b, words[1],
                                           Len(words) >= 2 /\ toUpperCase(words[2]) = "DESC"))

U_orderBy(rows, orderBy) == U_orderWords(rows, splitSpaces(orderBy))

\* if (p.limit) rows = rows.slice(0, p.limit)
U_limit(rows, limit) ==
    IF Truthy(limit) THEN sliceSeq(rows, 0, limit.n) ELSE rows

\* splitArgs: the pieces between the top-level commas, trimmed; an empty last piece
\* is not pushed
splitArgsOf(pieces) ==
    MapSeq(trim, IF Last(pieces) = "" THEN SubSeq(pieces, 1, Len(pieces) - 1) ELSE pieces)
splitArgs(str) == splitArgsOf(commaPieces(str, 0))

\* r[a] ?? a.replace(/['"]/g, '')
U_argValue(r, a) == Coalesce(Get(r, a), Str(removeChars(a, Quotes)))

U_applyCall(r, fn, args) ==
    U_sqlFunctions(fn, [i \in 1..Len(args) |-> U_argValue(r, args[i])])

\* the value the final SELECT gives one expression on one row; m is the match of
\* /(\w+)\((.*)\)/
U_selectMatch(r, expr, m) ==
    IF m.ok /\ m.fn \in U_functionNames THEN U_applyCall(r, m.fn, splitArgs(m.args))
    ELSE IF includes(expr, ".") THEN Coalesce(Get(r, lastSegment(expr)), Str("NULL"))
    ELSE Coalesce(Get(r, expr), Str("NULL"))

U_selectValue(r, t) == U_selectMatch(r, t.expr, callMatch(t.expr, FALSE))

\* o[t.alias] = ... for the tokens in order: a later token overwrites an equal alias
RECURSIVE U_selectRow(_, _, _)
U_selectRow(r, tokens, o) ==
    IF tokens = <<>> THEN o
    ELSE U_selectRow(r, Tail(tokens), Put(o, Head(tokens).alias, U_selectValue(r, Head(tokens))))

U_select(rows, tokens) == [i \in 1..Len(rows) |-> U_selectRow(rows[i], tokens, EmptyRow)]

\* the filter on JSON.stringify(row): every row of the result has the same keys in the
\* same order, and NaN is the one value JSON writes as something else (null), which no
\* result value is
keepRows(result, keep) == [k \in 1..Len(keep) |-> result[keep[k]]]

U_distinct(result) ==
    keepRows(result, SetToSeq({i \in 1..Len(result) : \A j \in 1..(i - 1) : result[j] # result[i]}))

\* the keys of a result row in their enumeration order
aliasOrder(tokens) ==
    objectKeyOrder({tokens[i].alias : i \in 1..Len(tokens)},
                   [a \in {tokens[i].alias : i \in 1..Len(tokens)} |->
                       MinOf({i \in 1..Len(tokens) : tokens[i].alias = a})])

\* Object.fromEntries(Object.entries(r).map(([k, v]) => [k.toUpperCase(), v])): of the
\* keys that become equal the one enumerated last gives the value
U_upperKeysIn(r, order) ==
    [u \in {toUpperCase(order[i]) : i \in 1..Len(order)} |->
        r[order[MaxOf({i \in 1..Len(order) : toUpperCase(order[i]) = u})]]]

U_upperKeys(r, tokens) == U_upperKeysIn(r, aliasOrder(tokens))

\* the rewriting with the texts of the values in upper case as well
upperValue(v) == IF v.t = "str" THEN Str(toUpperCase(v.s)) ELSE v

U_headerUpperValues(result, tokens) ==
    [i \in 1..Len(result) |->
        [K \in DOMAIN U_upperKeys(result[i], tokens) |-> upperValue(U_upperKeys(result[i], tokens)[K])]]

U_headerUpper(result, tokens) == [i \in 1..Len(result) |-> U_upperKeys(result[i], tokens)]

\* the keys of a result row after the header hint, in their enumeration order
upperOrder(names) ==
    objectKeyOrder({names[i] : i \in 1..Len(names)},
                   [a \in {names[i] : i \in 1..Len(names)} |-> MinOf({i \in 1..Len(names) : names[i] = a})])

upperAliasOrder(tokens) == upperOrder(MapSeq(toUpperCase, aliasOrder(tokens)))

(***************************************************************************)
(* JSON.stringify(result, null, 2) of an array of flat rows                *)
(***************************************************************************)
\* a string value or a key: in double quotes, with the quote, the backslash, the new
\* line and the tab escaped
RECURSIVE escaped(_)
escaped(s) ==
    IF s = "" THEN ""
    ELSE (CASE Head(s) = "\"" -> "\\\""
            [] Head(s) = "\\" -> "\\\\"
            [] Head(s) = "\n" -> "\\n"
            [] Head(s) = "\t" -> "\\t"
            [] OTHER          -> SubSeq(s, 1, 1)) \o escaped(Tail(s))

quoted(s) == "\"" \o escaped(s) \o "\""

\* a value: a finite number as String writes it, a string quoted, null and NaN as null
jsonValue(v) ==
    CASE v.t = "num" -> String(v)
      [] v.t = "str" -> quoted(v.s)
      [] OTHER       -> "null"

\* the properties of a row that are written: those that are not undefined
jsonPairs(row, keys) ==
    MapSeq(LAMBDA k : "    " \o quoted(k) \o ": " \o jsonValue(row[k]),
           SelectSeq(keys, LAMBDA k : k \in DOMAIN row /\ row[k].t # "undef"))

jsonObjectOf(pairs) == IF pairs = <<>> THEN "{}" ELSE "{\n" \o joinTexts(pairs, ",\n") \o "\n  }"

jsonObject(row, keys) == jsonObjectOf(jsonPairs(row, keys))

stringify(rows, keys) ==
    IF rows = <<>> THEN "[]"
    ELSE "[\n" \o joinTexts([i \in 1..Len(rows) |-> "  " \o jsonObject(rows[i], keys)], ",\n") \o "\n]"

(***************************************************************************)
(* A: the join / WHERE / hint engine (src/index.js 27..246)                *)
(***************************************************************************)
\* resolvePath with the "$" prefix: "data" and "root" are skipped at the top only when
\* the dataset has no such key
RECURSIVE A_resolveParts(_, _, _)
RECURSIVE A_resolveKey(_, _, _, _)
A_resolveParts(parts, cur, db) ==
    IF parts = <<>> THEN cur
    ELSE A_resolveKey(Tail(parts), cur, db,
                      IF startsWith(Head(parts), "$", 0) THEN Tail(Head(parts)) ELSE Head(parts))
A_resolveKey(rest, cur, db, key) ==
    IF cur.kind = "scope" /\ key \notin DOMAIN db /\ key \in {"data", "root"}
    THEN A_resolveParts(rest, cur, db)
    ELSE A_resolveParts(rest, Member(cur, key, db), db)

A_resolvePath(path, db) ==
    IF path = "" THEN RefNull ELSE A_resolveParts(split(path, "."), RefScope, db)

\* sql.match(/with\s*\(([^)]+)\)\s*;?\s*$/i): the hint list at the end of the text
\* the rest after the ")" is white space with at most one ";"
hintTailOk(t) == t = "" \/ (Head(t) = ";" /\ trimStart(Tail(t)) = "")

hintEndClose(l, open, close) ==
    close > open + 1 /\ hintTailOk(trimStart(Sub(l, close + 1, Len(l))))

hintEndOk(l, i, open) ==
    /\ startsWith(l, "with", i)
    /\ CharAt(l, open) = "("
    /\ hintEndClose(l, open, indexOfFrom(l, ")", open + 1))

hintEndAt(sql, l, i) == IF i = -1 THEN NoHint ELSE U_hintOpen(sql, i, skipSpaces(l, i + 4))

hintEndIn(sql, l) ==
    hintEndAt(sql, l, MinOr({i \in 0..(Len(l) - 1) : hintEndOk(l, i, skipSpaces(l, i + 4))}, -1))

\* [ok, index, end, inner]: hintMatch[0] runs from index to the end of the text
hintEndMatch(sql) == hintEndIn(sql, toLowerCase(sql))

\* the hints as they are written: hintMatch[1].split(',').map(h => h.trim())
activeHintsAsWritten(hints) == IF hints.ok THEN MapSeq(trim, split(hints.inner, ",")) ELSE <<>>

\* hintMatch[1].split(',').map(h => h.trim().toLowerCase())
activeHintsOf(hints) == IF hints.ok THEN MapSeq(trimLower, split(hints.inner, ",")) ELSE <<>>

\* sql.replace(hintMatch[0], '').trim(); the text is not trimmed when there is no hint
cleanSqlOf(sql, hints) == IF hints.ok THEN trim(Sub(sql, 0, hints.index)) ELSE sql

\* s.replace(/\s+/g, ' ')
RECURSIVE collapseSpaces(_)
RECURSIVE collapseAt(_, _)
collapseSpaces(s) == collapseAt(s, MinOr({i \in 0..(Len(s) - 1) : IsSpace(CharAt(s, i))}, -1))
collapseAt(s, i) ==
    IF i = -1 THEN s
    ELSE Sub(s, 0, i) \o " " \o collapseSpaces(Sub(s, skipSpaces(s, i), Len(s)))

\* findTopLevelClause: the first index at depth 0 where the clause word starts with
\* white space (or the start) before it and white space (or the end) after it
A_clauseOk(sql, l, search, i) ==
    /\ startsWith(l, search, i)
    /\ depthAt(sql, i) = 0
    /\ (i = 0 \/ IsSpace(CharAt(sql, i - 1)))
    /\ (IsSpace(CharAt(sql, i + Len(search))) \/ i + Len(search) = Len(sql))

A_findTopLevelClauseIn(sql, l, search) ==
    MinOr({i \in 0..(Len(sql) - 1) : A_clauseOk(sql, l, search, i)}, -1)

A_findTopLevelClause(sql, clause) ==
    A_findTopLevelClauseIn(sql, toLowerCase(sql), toLowerCase(clause))

\* parseToken of src/index.js: raw arrives trimmed
A_tokenAgg(expr, alias, isAgg, mm) ==
    [ok        |-> ~isAgg \/ mm.ok,
     expr      |-> expr,
     alias     |-> alias,
     isAgg     |-> isAgg,
     aggFunc   |-> IF isAgg /\ mm.ok THEN toLowerCase(mm.fn) ELSE "",
     aggColumn |-> IF isAgg /\ mm.ok /\ trim(mm.args) # "*" THEN trim(mm.args) ELSE ""]

A_tokenOf(expr, alias) == A_tokenAgg(expr, alias, isAggExpr(expr), callMatch(expr, TRUE))

A_tokenAt(raw, m) ==
    IF m # -1 THEN A_tokenOf(trim(Sub(raw, 0, m)), trim(Sub(raw, m + 4, Len(raw))))
    ELSE A_tokenOf(raw, lastSegment(raw))

A_parseToken(raw) == A_tokenAt(raw, asIndex(raw))

A_trimmedToken(piece) == A_parseToken(trim(piece))

\* s.split(/\sword\s/i): one white space character on each side of the word; l is s
\* in lower case
sepIndex1(l, word) ==
    MinOr({i \in 0..(Len(l) - Len(word) - 2) :
              IsSpace(CharAt(l, i)) /\ startsWith(l, word, i + 1)
                  /\ IsSpace(CharAt(l, i + 1 + Len(word)))}, -1)

RECURSIVE splitOnWord1In(_, _, _)
RECURSIVE splitOnWord1At(_, _, _, _)
splitOnWord1In(s, l, word) == splitOnWord1At(s, l, word, sepIndex1(l, word))
splitOnWord1At(s, l, word, i) ==
    IF i = -1 THEN <<s>>
    ELSE <<Sub(s, 0, i)>> \o splitOnWord1In(Sub(s, i + Len(word) + 2, Len(s)),
                                            Sub(l, i + Len(word) + 2, Len(l)), word)

splitOnWord1(s, word) == splitOnWord1In(s, toLowerCase(s), word)

\* one entry of joins: slice(0, onIdx) and slice(onIdx + 4) with onIdx = -1 when the
\* segment has no " on "
A_joinAt(segment, onIdx) ==
    [tablePath |-> trim(Slice(segment, 0, onIdx)), condition |-> trim(SliceFrom(segment, onIdx + 4))]

A_joinOf(segment) == A_joinAt(segment, indexOf(toLowerCase(segment), " on "))

\* getEnd(start)
A_getEnd(start, wIdx, withIdx, n) == MinOr({i \in {wIdx, withIdx} : i > start}, n)

A_planOf(sql, hints, sIdx, fIdx, wIdx, withIdx, tokens, joinParts) ==
    [ok          |-> \A i \in 1..Len(tokens) : tokens[i].ok,
     sIdx        |-> sIdx,
     fIdx        |-> fIdx,
     tokens      |-> tokens,
     base        |-> trim(joinParts[1]),
     joins       |-> [i \in 1..(Len(joinParts) - 1) |-> A_joinOf(joinParts[i + 1])],
     where       |-> IF wIdx # -1
                     THEN Clause(trim(Slice(sql, wIdx + 6, A_getEnd(wIdx, wIdx, withIdx, Len(sql)))))
                     ELSE NoClause,
     hints       |-> hints]

A_planAt(sql, hints, sIdx, fIdx, wIdx, withIdx) ==
    A_planOf(sql, hints, sIdx, fIdx, wIdx, withIdx,
             MapSeq(A_trimmedToken, commaPieces(trim(Slice(sql, sIdx + 6, fIdx)), 0)),
             splitOnWord1(trim(Slice(sql, fIdx + 4, A_getEnd(fIdx, wIdx, withIdx, Len(sql)))), "join"))

A_planIn(sql, l, hints) ==
    A_planAt(sql, hints,
             A_findTopLevelClauseIn(l, l, "select"), A_findTopLevelClauseIn(l, l, "from"),
             A_findTopLevelClauseIn(l, l, "where"), A_findTopLevelClauseIn(l, l, "with"))

A_planClean(sql, hints) == A_planIn(sql, toLowerCase(sql), hints)

\* parseSQL of src/index.js; hints carries the active hints of executeQuery along
A_parseSQL(sql, hints) == A_planClean(collapseSpaces(trim(sql)), hints)

\* the head of executeQuery: the hints, cleanSql, parseSQL
A_parseHinted(sql, hints) == A_parseSQL(cleanSqlOf(sql, hints), activeHintsOf(hints))

A_parse(sql) == A_parseHinted(sql, hintEndMatch(sql))

\* namespaced[`${name}.${k}`] = r[k] for every key of the row
Namespaced(r, name) ==
    [q \in {name \o "." \o k : k \in DOMAIN r} |-> r[Sub(q, Len(name) + 1, Len(q))]]

\* { ...r, ...namespaced }
A_baseRow(r, name) == Spread(r, Namespaced(r, name))

A_baseRows(data, name) == [i \in 1..Len(data) |-> A_baseRow(data[i], name)]

\* existingRow[leftCol] ?? existingRow[leftCol.split('.').pop()]
LookupValue(row, col) == Coalesce(Get(row, col), Get(row, lastSegment(col)))

\* the rows the inner forEach pushes for one existing row
A_joinMatches(existingRow, data, rightCol, name, lookupValue) ==
    SelectSeq([i \in 1..Len(data) |->
                  [hit |-> String(lookupValue) = String(Get(data[i], rightCol)),
                   row |-> Spread(Spread(existingRow, data[i]), Namespaced(data[i], name))]],
              LAMBDA e : e.hit)

A_joinRow(existingRow, data, keys, name) ==
    A_joinMatches(existingRow, data, keys.r, name, LookupValue(existingRow, keys.l))

HitRow(e) == e.row

A_joinRows(rows, data, keys, name) ==
    MapSeq(HitRow, Flatten([i \in 1..Len(rows) |-> A_joinRow(rows[i], data, keys, name)]))

\* one iteration of the loop over parsed.joins, for a table path that resolves to rows
A_join(rows, joinDef, db) ==
    A_joinRows(rows, TableRows(A_resolvePath(joinDef.tablePath, db), db),
               condKeys(joinDef.condition), lastSegment(joinDef.tablePath))

\* the operator alternatives of the condition of src/index.js
A_condOps == <<"=", "!=", ">", "<">>

\* \s*['"]?(.+?)['"]?$ on the text after the operator: an opening and a closing quote
\* are left out when a character remains between them
dropFirstQuote(t) == IF Len(t) >= 2 /\ Head(t) \in Quotes THEN Tail(t) ELSE t
dropLastQuote(t)  == IF Len(t) >= 2 /\ CharAt(t, Len(t) - 1) \in Quotes THEN Sub(t, 0, Len(t) - 1) ELSE t

\* val.trim().replace(/['"]/g, "")
quotedVal(val) == removeChars(trim(dropLastQuote(dropFirstQuote(val))), Quotes)

\* String(row[col] ?? row[col.split('.').pop()] ?? "").toLowerCase()
ActualValue(row, col) == toLowerCase(String(Coalesce(LookupValue(row, col), Str(""))))

A_evalValues(op, actualValue, targetValue) ==
    CASE op = "="  -> actualValue = targetValue
      [] op = "!=" -> actualValue # targetValue
      [] OTHER     -> FALSE

A_evalMatch(row, m) ==
    IF ~m.ok THEN TRUE
    ELSE A_evalValues(m.op, ActualValue(row, trim(m.col)), toLowerCase(quotedVal(m.val)))

\* one AND condition
A_evalCond(row, cond) == A_evalMatch(row, condMatch(cond, A_condOps))

A_evalGroup(row, andConditions) ==
    \A i \in 1..Len(andConditions) : A_evalCond(row, andConditions[i])

A_evalGroups(row, orGroups) ==
    \E g \in 1..Len(orGroups) : A_evalGroup(row, splitOnWord(orGroups[g], "and"))

A_whereGroups(rows, orGroups) == SelectSeq(rows, LAMBDA row : A_evalGroups(row, orGroups))

\* the filter of the WHERE stage
A_where(rows, whereClause) == A_whereGroups(rows, splitOnWord(whereClause, "or"))

\* clean[t.alias] = ...
A_selectValue(val) == IF Nullish(val) THEN Str("NULL") ELSE val

A_selectToken(row, t) ==
    A_selectValue(IF Get(row, t.alias).t # "undef" THEN Get(row, t.alias) ELSE Get(row, t.expr))

RECURSIVE A_selectRow(_, _, _)
A_selectRow(row, tokens, clean) ==
    IF tokens = <<>> THEN clean
    ELSE A_selectRow(row, Tail(tokens), Put(clean, Head(tokens).alias, A_selectToken(row, Head(tokens))))

A_select(rows, tokens) == [i \in 1..Len(rows) |-> A_selectRow(rows[i], tokens, EmptyRow)]

(***************************************************************************)
(* X: the single-function engine (src/bindex.js 12..127)                   *)
(***************************************************************************)
\* s.replace(text, '') of a string pattern: the first occurrence only
removeFirstAt(s, text, i) ==
    IF i = -1 THEN s ELSE Sub(s, 0, i) \o Sub(s, i + Len(text), Len(s))
removeFirst(s, text) == removeFirstAt(s, text, indexOf(s, text))

\* segment.trim().replace('data.', '').replace('$', '')
X_tableName(segment) == removeFirst(removeFirst(trim(segment), "data."), "$")

\* rootData[name] || []
X_tableRows(db, name) == IF name \in DOMAIN db THEN db[name] ELSE <<>>

\* one select token: t.split(/\sas\s/i), (parts[1] || parts[0]).trim().split('.').pop()
X_tokenOf(parts) ==
    [expr  |-> trim(parts[1]),
     alias |-> lastSegment(trim(IF Len(parts) >= 2 /\ parts[2] # "" THEN parts[2] ELSE parts[1]))]

X_token(t) == X_tokenOf(splitOnWord1(t, "as"))

\* one join segment: split(/\son\s/i) and the condition split on "="; ok is FALSE
\* where joinParts[1] or condition[1] is undefined and the code throws
X_joinCond(table, condition) ==
    [ok    |-> Len(condition) >= 2,
     table |-> table,
     l     |-> trim(condition[1]),
     r     |-> IF Len(condition) >= 2 THEN trim(condition[2]) ELSE ""]

X_joinOf(joinParts) ==
    IF Len(joinParts) >= 2 THEN X_joinCond(X_tableName(joinParts[1]), split(joinParts[2], "="))
    ELSE [ok |-> FALSE, table |-> X_tableName(joinParts[1]), l |-> "", r |-> ""]

X_joinSegment(segment) == X_joinOf(splitOnWord1(segment, "on"))

X_planOf(cleanSql, hints, sIdx, fIdx, wIdx, tableSegments) ==
    [ok     |-> TRUE,
     sIdx   |-> sIdx,
     fIdx   |-> fIdx,
     tokens |-> MapSeq(X_token, split(trim(Slice(cleanSql, sIdx + 6, fIdx)), ",")),
     base   |-> X_tableName(tableSegments[1]),
     joins  |-> [i \in 1..(Len(tableSegments) - 1) |-> X_joinSegment(tableSegments[i + 1])],
     where  |-> IF wIdx # -1 THEN Clause(trim(SliceFrom(cleanSql, wIdx + 5))) ELSE NoClause,
     hints  |-> hints]

X_planAt(cleanSql, hints, sIdx, fIdx, wIdx) ==
    X_planOf(cleanSql, hints, sIdx, fIdx, wIdx,
             splitOnWord1(trim(Slice(cleanSql, fIdx + 4, IF wIdx # -1 THEN wIdx ELSE Len(cleanSql))),
                          "join"))

X_planIn(cleanSql, lower, hints) ==
    X_planAt(cleanSql, hints, indexOf(lower, "select"), indexOf(lower, "from"), indexOf(lower, "where"))

X_planClean(cleanSql, hints) == X_planIn(cleanSql, toLowerCase(cleanSql), hints)

X_parseHinted(sql, hints) == X_planClean(cleanSqlOf(sql, hints), activeHintsOf(hints))

\* parts A and B of executeQuery, and the texts the later parts cut from them
X_parse(sql) == X_parseHinted(sql, hintEndMatch(sql))

\* entry[`${name}.${k}`] = r[k] on a copy of the row
X_baseRows(data, name) == [i \in 1..Len(data) |-> Spread(data[i], Namespaced(data[i], name))]

X_joinMatches(row, joinData, rightCol, name, leftVal) ==
    SelectSeq([i \in 1..Len(joinData) |->
                  [hit |-> String(leftVal) = String(Get(joinData[i], rightCol)),
                   row |-> Spread(Spread(row, joinData[i]), Namespaced(joinData[i], name))]],
              LAMBDA e : e.hit)

X_joinRow(row, joinData, j) ==
    X_joinMatches(row, joinData, j.r, j.table, LookupValue(row, j.l))

\* one iteration of the loop over the join segments
X_join(rows, j, db) ==
    MapSeq(HitRow, Flatten([i \in 1..Len(rows) |-> X_joinRow(rows[i], X_tableRows(db, j.table), j)]))

\* the operator alternatives of the condition of src/bindex.js, matched ignoring case
X_condOps == <<"=", "!=", "contains", ">", "<">>

\* Number(actual) > Number(target) and <
X_evalValues(op, actual, target) ==
    CASE op = "="        -> actual = target
      [] op = "!="       -> actual # target
      [] op = "contains" -> includes(actual, target)
      [] op = ">"        -> NumbersLt(stringToNumber(target), stringToNumber(actual))
      [] op = "<"        -> NumbersLt(stringToNumber(actual), stringToNumber(target))
      [] OTHER           -> FALSE

X_evalMatch(row, m) ==
    IF ~m.ok THEN TRUE
    ELSE X_evalValues(m.op, ActualValue(row, trim(m.col)), toLowerCase(quotedVal(m.val)))

\* one AND condition; the operator is matched ignoring case and compared as written
X_evalCond(row, cond) == X_evalMatch(row, condMatchIn(cond, toLowerCase(cond), X_condOps))

X_evalGroup(row, andConditions) ==
    \A i \in 1..Len(andConditions) : X_evalCond(row, andConditions[i])

X_evalGroups(row, orGroups) ==
    \E g \in 1..Len(orGroups) : X_evalGroup(row, splitOnWord(orGroups[g], "and"))

X_whereGroups(rows, orGroups) == SelectSeq(rows, LAMBDA row : X_evalGroups(row, orGroups))

X_where(rows, whereClause) == X_whereGroups(rows, splitOnWord(whereClause, "or"))

\* rows.forEach((row, idx) => row[token.alias] = idx + 1) for every token whose
\* expression mentions row_number
RECURSIVE X_rowNumber(_, _)
X_rowNumber(rows, tokens) ==
    IF tokens = <<>> THEN rows
    ELSE IF includes(toLowerCase(Head(tokens).expr), "row_number")
    THEN X_rowNumber([idx \in 1..Len(rows) |-> Put(rows[idx], Head(tokens).alias, Num(idx))],
                     Tail(tokens))
    ELSE X_rowNumber(rows, Tail(tokens))

\* row[t.alias] ?? row[t.expr] ?? row[t.expr.split('.').pop()] ?? "NULL"
X_selectToken(row, t) ==
    Coalesce(Coalesce(Coalesce(Get(row, t.alias), Get(row, t.expr)),
                      Get(row, lastSegment(t.expr))), Str("NULL"))

RECURSIVE X_selectRow(_, _, _)
X_selectRow(row, tokens, clean) ==
    IF tokens = <<>> THEN clean
    ELSE X_selectRow(row, Tail(tokens), Put(clean, Head(tokens).alias, X_selectToken(row, Head(tokens))))

X_select(rows, tokens) == [i \in 1..Len(rows) |-> X_selectRow(rows[i], tokens, EmptyRow)]

(***************************************************************************)
(* K: the window / GROUP BY engine (src/backup.js 12..150)                 *)
(***************************************************************************)
K_resolvePath(path, scope) == A_resolvePath(path, scope)

\* parseAlias: token.split(/\s+as\s+/i) gives an alias only when it has two parts
K_aliasOf(token, parts) ==
    IF Len(parts) = 2 THEN [expr |-> trim(parts[1]), alias |-> trim(parts[2])]
    ELSE [expr |-> token, alias |-> token]

K_parseAlias(token) == K_aliasOf(token, splitOnWord(token, "as"))

K_trimmedAlias(buf) == K_parseAlias(trim(buf))

\* getSelectTokensFromPart: the last buffer is pushed only when it is not empty
K_tokensOf(pieces) ==
    MapSeq(K_trimmedAlias, IF Last(pieces) = "" THEN SubSeq(pieces, 1, Len(pieces) - 1) ELSE pieces)

K_getSelectTokensFromPart(expr) == K_tokensOf(commaPieces(expr, 0))

\* two words with white space between them at index i of the lower-cased text l: the
\* index after the second word, 0 when they are not there
wordPairEnd(l, w1, w2, i) ==
    IF startsWith(l, w1, i) /\ IsSpace(CharAt(l, i + Len(w1)))
           /\ startsWith(l, w2, skipSpaces(l, i + Len(w1)))
    THEN skipSpaces(l, i + Len(w1)) + Len(w2)
    ELSE 0

\* the first index where the two words stand, -1 when none
wordPairFirst(l, w1, w2) ==
    MinOr({i \in 0..(Len(l) - 1) : wordPairEnd(l, w1, w2, i) > 0}, -1)

\* the first index where the two words are followed by white space, -1 when none
wordPairIndex(l, w1, w2) ==
    MinOr({i \in 0..(Len(l) - 1) : IsSpace(CharAt(l, wordPairEnd(l, w1, w2, i)))
                                       /\ wordPairEnd(l, w1, w2, i) > 0}, -1)

\* /row_number\s*\(\s*\)\s+over\s*\((.*)\)/i at index i: the index of the "(" after
\* over, 0 when the expression does not match there
windowOpenAt(l, i, a, b, o) ==
    IF startsWith(l, "row_number", i) /\ CharAt(l, a) = "(" /\ CharAt(l, b) = ")"
           /\ IsSpace(CharAt(l, b + 1)) /\ startsWith(l, "over", skipSpaces(l, b + 1))
           /\ CharAt(l, o) = "("
           /\ (\E k \in (o + 1)..(Len(l) - 1) : CharAt(l, k) = ")")
    THEN o
    ELSE 0

windowOpenFrom(l, i, a, b) == windowOpenAt(l, i, a, b, skipSpaces(l, skipSpaces(l, b + 1) + 4))

windowOpen(l, i) == windowOpenFrom(l, i, skipSpaces(l, i + 10), skipSpaces(l, skipSpaces(l, i + 10) + 1))

\* windowMatch: [ok, content]; content is windowMatch[1], up to the last ")"
NoWindow == [ok |-> FALSE, content |-> ""]

windowContent(expr, open) ==
    [ok |-> TRUE,
     content |-> Sub(expr, open + 1, MaxOf({k \in (open + 1)..(Len(expr) - 1) : CharAt(expr, k) = ")"}))]

windowAt(expr, l, i) == IF i = -1 THEN NoWindow ELSE windowContent(expr, windowOpen(l, i))

windowMatchIn(expr, l) ==
    windowAt(expr, l, MinOr({i \in 0..(Len(l) - 1) : windowOpen(l, i) > 0}, -1))

windowMatch(expr) == windowMatchIn(expr, toLowerCase(expr))

\* content.match(/partition\s+by\s+(.*?)(?=order\s+by|$)/i): pMatch[1].trim(), "" for
\* no match (null and "" are both falsy where partitionBy is read)
partitionCut(content, l, from, stop) ==
    trim(Sub(content, from, IF stop = -1 THEN Len(content) ELSE from + stop))

partitionFrom(content, l, from) ==
    partitionCut(content, l, from, wordPairFirst(Sub(l, from, Len(l)), "order", "by"))

partitionAt(content, l, i) ==
    IF i = -1 THEN ""
    ELSE partitionFrom(content, l, skipSpaces(l, wordPairEnd(l, "partition", "by", i)))

partitionByOf(content, l) == partitionAt(content, l, wordPairIndex(l, "partition", "by"))

\* content.match(/order\s+by\s+(.*)/i): oMatch[1].trim(), "" for no match
orderAt(content, l, i) ==
    IF i = -1 THEN ""
    ELSE trim(Sub(content, skipSpaces(l, wordPairEnd(l, "order", "by", i)), Len(content)))

windowOrderOf(content, l) == orderAt(content, l, wordPairIndex(l, "order", "by"))

\* one select token with its window fields
K_windowFields(token, m, content) ==
    [expr        |-> token.expr,
     alias       |-> token.alias,
     isWindow    |-> m.ok,
     windowOrder |-> IF m.ok THEN windowOrderOf(content, toLowerCase(content)) ELSE "",
     partitionBy |-> IF m.ok THEN partitionByOf(content, toLowerCase(content)) ELSE ""]

K_windowOf(token, m) == K_windowFields(token, m, trim(m.content))

K_windowToken(token) == K_windowOf(token, windowMatch(token.expr))

\* getEnd(start)
K_getEnd(start, fIdx, wIdx, gIdx, oIdx, n) == MinOr({i \in {fIdx, wIdx, gIdx, oIdx} : i > start}, n)

K_planAt(sql, sIdx, fIdx, wIdx, gIdx, oIdx) ==
    [ok          |-> TRUE,
     sIdx        |-> sIdx,
     fIdx        |-> fIdx,
     tokens      |-> MapSeq(K_windowToken, K_getSelectTokensFromPart(trim(Slice(sql, sIdx + 6, fIdx)))),
     fromClause  |-> trim(Slice(sql, fIdx + 4, K_getEnd(fIdx, fIdx, wIdx, gIdx, oIdx, Len(sql)))),
     groupBy     |-> IF gIdx # -1
                     THEN Clause(trim(Slice(sql, gIdx + 8, K_getEnd(gIdx, fIdx, wIdx, gIdx, oIdx, Len(sql)))))
                     ELSE NoClause,
     orderClause |-> IF oIdx # -1 THEN Clause(trim(SliceFrom(sql, oIdx + 9))) ELSE NoClause]

K_planIn(sql, lower) ==
    K_planAt(sql, indexOf(lower, "select"), indexOf(lower, "from"), indexOf(lower, "where"),
             indexOf(lower, "group by"), indexOf(lower, "order by"))

K_planClean(sql) == K_planIn(sql, toLowerCase(sql))

\* sql.trim().replace(/;$/, '')
dropSemicolon(s) == IF s # "" /\ CharAt(s, Len(s) - 1) = ";" THEN Sub(s, 0, Len(s) - 1) ELSE s

\* parseSQL of src/backup.js
K_parseSQL(sql) == K_planClean(dropSemicolon(trim(sql)))

\* the orders of applyOrderBy: [expr, dir] for every comma-separated part
K_orderOf(t) ==
    [expr |-> trim(t[1]), dir |-> IF Len(t) >= 2 /\ t[2] # "" THEN toUpperCase(t[2]) ELSE "ASC"]

K_orderPart(p) == K_orderOf(splitSpaces(trim(p)))

K_orders(orderClause) == MapSeq(K_orderPart, split(orderClause, ","))

\* the comparator of applyOrderBy is negative: a sorts before b
RECURSIVE K_orderBefore(_, _, _)
RECURSIVE K_orderValues(_, _, _, _, _)
K_orderBefore(a, b, orders) ==
    IF orders = <<>> THEN FALSE
    ELSE IF ~isNaN(Get(a, Head(orders).expr)) /\ ~isNaN(Get(b, Head(orders).expr))
    THEN K_orderValues(a, b, orders, Number(Get(a, Head(orders).expr)), Number(Get(b, Head(orders).expr)))
    ELSE K_orderValues(a, b, orders, Get(a, Head(orders).expr), Get(b, Head(orders).expr))
K_orderValues(a, b, orders, av, bv) ==
    IF JsLt(av, bv) THEN Head(orders).dir = "ASC"
    ELSE IF JsLt(bv, av) THEN Head(orders).dir # "ASC"
    ELSE K_orderBefore(a, b, Tail(orders))

\* applyOrderBy: the rows themselves for an empty clause, else a sorted copy of the
\* array (of the same row objects)
K_applyOrderByWith(rows, orders) == sort(rows, LAMBDA a, b : K_orderBefore(a, b, orders))

K_applyOrderBy(rows, orderClause) ==
    IF orderClause = "" THEN rows ELSE K_applyOrderByWith(rows, K_orders(orderClause))

\* the result row of one group for the select tokens: the matching grouping column,
\* else the column named by the expression
lowerTrim(s) == toLowerCase(trim(s))

K_groupValue(result, firstRow, t, matched) ==
    IF matched # {} THEN Put(result, t.alias, Get(firstRow, CHOOSE c \in matched : TRUE))
    ELSE IF Get(firstRow, t.expr).t # "undef" THEN Put(result, t.alias, Get(firstRow, t.expr))
    ELSE result

\* columns.find(c => c.toLowerCase() === expr): the first such column, when it is truthy
firstMatching(columns, expr) ==
    {columns[i] : i \in {MinOr({k \in 1..Len(columns) : toLowerCase(columns[k]) = expr /\ expr # ""}, 0)} \ {0}}

RECURSIVE K_groupTokens(_, _, _, _)
K_groupTokens(result, firstRow, columns, tokens) ==
    IF tokens = <<>> THEN result
    ELSE IF Head(tokens).isWindow THEN K_groupTokens(result, firstRow, columns, Tail(tokens))
    ELSE K_groupTokens(K_groupValue(result, firstRow, Head(tokens),
                                    firstMatching(columns, lowerTrim(Head(tokens).expr))),
                       firstRow, columns, Tail(tokens))

\* the grouping columns the tokens left undefined are defined on the result, not
\* enumerable; the engine reads them by name only
RECURSIVE K_groupHidden(_, _, _)
K_groupHidden(result, firstRow, columns) ==
    IF columns = <<>> THEN result
    ELSE IF Get(result, Head(columns)).t = "undef"
    THEN K_groupHidden(Put(result, Head(columns), Get(firstRow, Head(columns))), firstRow, Tail(columns))
    ELSE K_groupHidden(result, firstRow, Tail(columns))

K_groupRow(firstRow, columns, tokens) ==
    K_groupHidden(K_groupTokens(EmptyRow, firstRow, columns, tokens), firstRow, columns)

K_groupRows(rows, columns, tokens, texts, order) ==
    [g \in 1..Len(order) |-> K_groupRow(rows[membersOf(texts, order[g])[1]], columns, tokens)]

K_groupTexts(rows, columns, tokens, texts) ==
    K_groupRows(rows, columns, tokens, texts, bucketOrder(texts))

K_groupColumns(rows, columns, tokens) ==
    K_groupTexts(rows, columns, tokens, [i \in 1..Len(rows) |-> U_groupKey(rows[i], columns)])

\* applyGroupBy
K_applyGroupBy(rows, groupingColumnsStr, tokens) ==
    K_groupColumns(rows, columnList(groupingColumnsStr), tokens)

\* partCols.map(col => String(r[col] ?? "default")).join('|')
K_compositeKey(r, partCols) ==
    joinWith([i \in 1..Len(partCols) |-> Str(String(Coalesce(Get(r, partCols[i]), Str("default"))))], "|")

\* the position (from 1) of the row i in the sorted rows of its partition; equal rows
\* of a partition are told apart by their index
K_rankIn(sorted, i) == CHOOSE p \in 1..Len(sorted) : sorted[p].i = i

\* the rows of one partition, each with its index, in applyOrderBy order
Indexed(rows, members) == [m \in 1..Len(members) |-> [i |-> members[m], row |-> rows[members[m]]]]

K_sortedWith(indexed, orders) == sort(indexed, LAMBDA a, b : K_orderBefore(a.row, b.row, orders))

K_sortedPartition(indexed, windowOrder) ==
    IF windowOrder = "" THEN indexed ELSE K_sortedWith(indexed, K_orders(windowOrder))

\* r[t.alias] = idx + 1 for every row of every partition
K_windowRows(rows, t, texts) ==
    [i \in 1..Len(rows) |->
        Put(rows[i], t.alias,
            Num(K_rankIn(K_sortedPartition(Indexed(rows, membersOf(texts, texts[i])), t.windowOrder), i)))]

K_windowToken1(rows, t, partCols) ==
    K_windowRows(rows, t, [i \in 1..Len(rows) |-> K_compositeKey(rows[i], partCols)])

\* the window stage: the tokens with isWindow, in order; only those with a
\* partitionBy assign anything
RECURSIVE K_window(_, _)
K_window(rows, tokens) ==
    IF tokens = <<>> THEN rows
    ELSE IF Head(tokens).isWindow /\ Head(tokens).partitionBy # ""
    THEN K_window(K_windowToken1(rows, Head(tokens), columnList(Head(tokens).partitionBy)), Tail(tokens))
    ELSE K_window(rows, Tail(tokens))

\* clean[a] = row[a] for the aliases in order
RECURSIVE K_cleanRow(_, _, _)
K_cleanRow(row, tokens, clean) ==
    IF tokens = <<>> THEN clean
    ELSE K_cleanRow(row, Tail(tokens), Put(clean, Head(tokens).alias, Get(row, Head(tokens).alias)))

K_project(rows, tokens) == [i \in 1..Len(rows) |-> K_cleanRow(rows[i], tokens, EmptyRow)]

(***************************************************************************)
(* B: the window engine with top-level clauses (src/index.js 295..456)     *)
(***************************************************************************)
\* findTopLevelClause: the first index outside parentheses where the keyword starts
B_findTopLevelClause(sqlLower, keyword) ==
    MinOr({i \in 0..(Len(sqlLower) - 1) : startsWith(sqlLower, keyword, i) /\ depthAt(sqlLower, i) = 0}, -1)

\* parseSQL: the plan is built as in src/backup.js, from the top-level indexes of
\* select, from, group by and order by and the first index of where
B_planIn(sql, lower) ==
    K_planAt(sql, B_findTopLevelClause(lower, "select"), B_findTopLevelClause(lower, "from"),
             indexOf(lower, "where"),
             B_findTopLevelClause(lower, "group by"), B_findTopLevelClause(lower, "order by"))

B_planClean(sql) == B_planIn(sql, toLowerCase(sql))

B_parseSQL(sql) == B_planClean(dropSemicolon(trim(sql)))

\* the comparator of applyOrderBy without its loop over the orders: the first order
\* alone decides
B_orderBeforeFirst(a, b, orders) == K_orderBefore(a, b, <<Head(orders)>>)

\* the comparator of applyOrderBy is negative (the loop over the orders is the one of
\* src/backup.js)
B_orderBefore(a, b, orders) == K_orderBefore(a, b, orders)

(***************************************************************************)
(* [...rows].sort(comparator) for the short arrays of the model, as the    *)
(* engine's runtime sorts them: the leading run is counted (and reversed   *)
(* when it descends), then every later element is put in place by a binary *)
(* search.  The array is held as the indexes of its rows; the comparator   *)
(* is read only as negative or not negative.                               *)
(***************************************************************************)
\* the length of the leading run: idx is the position of the next element
RECURSIVE B_sortRunEnd(_, _, _, _, _)
B_sortRunEnd(rows, orders, a, desc, idx) ==
    IF idx > Len(a) THEN Len(a)
    ELSE IF B_orderBefore(rows[a[idx]], rows[a[idx - 1]], orders) = desc
    THEN B_sortRunEnd(rows, orders, a, desc, idx + 1)
    ELSE idx - 1

\* the array with its leading run of n elements made ascending
B_sortMakeRun(a, desc, n) ==
    IF desc THEN Reverse(SubSeq(a, 1, n)) \o SubSeq(a, n + 1, Len(a)) ELSE a

\* the number of elements of a[0..right) the pivot is put behind
RECURSIVE B_sortSearch(_, _, _, _, _, _)
B_sortSearch(rows, orders, a, pivot, left, right) ==
    IF left >= right THEN left
    ELSE IF B_orderBefore(rows[pivot], rows[a[left + (right - left) \div 2 + 1]], orders)
    THEN B_sortSearch(rows, orders, a, pivot, left, left + (right - left) \div 2)
    ELSE B_sortSearch(rows, orders, a, pivot, left + (right - left) \div 2 + 1, right)

\* the element at index start moved to index left
B_sortMove(a, start, left) ==
    SubSeq(a, 1, left) \o <<a[start + 1]>> \o SubSeq(a, left + 1, start) \o SubSeq(a, start + 2, Len(a))

RECURSIVE B_sortInsertFrom(_, _, _, _)
B_sortInsertFrom(rows, orders, a, start) ==
    IF start >= Len(a) THEN a
    ELSE B_sortInsertFrom(rows, orders,
                          B_sortMove(a, start, B_sortSearch(rows, orders, a, a[start + 1], 0, start)),
                          start + 1)

B_sortRunOf(rows, orders, a, desc, n) == B_sortInsertFrom(rows, orders, B_sortMakeRun(a, desc, n), n)

B_sortRun(rows, orders, a, desc) == B_sortRunOf(rows, orders, a, desc, B_sortRunEnd(rows, orders, a, desc, 3))

B_sortIndexes(rows, orders, a) ==
    IF Len(a) < 2 THEN a
    ELSE B_sortRun(rows, orders, a, B_orderBefore(rows[a[2]], rows[a[1]], orders))

RowsAt(rows, a) == [p \in 1..Len(a) |-> rows[a[p]]]

B_sorted(rows, orders) == RowsAt(rows, B_sortIndexes(rows, orders, [i \in 1..Len(rows) |-> i]))

\* applyOrderBy: the rows themselves for an empty clause, else the sorted copy
B_applyOrderBy(rows, orderClause) ==
    IF orderClause = "" THEN rows ELSE B_sorted(rows, K_orders(orderClause))

\* partCols.map(col => String(r[col])).join('|')
B_partitionKey(r, partCols) ==
    joinWith([i \in 1..Len(partCols) |-> Str(String(Get(r, partCols[i])))], "|")

\* the indexes of the rows of one partition in applyOrderBy order
B_sortedPartition(rows, members, windowOrder) ==
    IF windowOrder = "" THEN members ELSE B_sortIndexes(rows, K_orders(windowOrder), members)

PositionIn(seq, x) == CHOOSE p \in 1..Len(seq) : seq[p] = x

\* r[t.alias] = idx + 1 for every row of every partition
B_windowRows(rows, t, texts) ==
    [i \in 1..Len(rows) |->
        Put(rows[i], t.alias,
            Num(PositionIn(B_sortedPartition(rows, membersOf(texts, texts[i]), t.windowOrder), i)))]

B_windowToken(rows, t, partCols) ==
    B_windowRows(rows, t, [i \in 1..Len(rows) |-> B_partitionKey(rows[i], partCols)])

\* the window stage: every token with isWindow, in order; no partitionBy is one
\* partition of all the rows
RECURSIVE B_window(_, _)
B_window(rows, tokens) ==
    IF tokens = <<>> THEN rows
    ELSE IF Head(tokens).isWindow
    THEN B_window(B_windowToken(rows, Head(tokens),
                                IF Head(tokens).partitionBy # "" THEN columnList(Head(tokens).partitionBy)
                                ELSE <<>>),
                  Tail(tokens))
    ELSE B_window(rows, Tail(tokens))

\* the GROUP BY stage: the first row of every key, in the order Object.values
\* enumerates the keys of groups
B_groupFirst(rows, texts, order) == [g \in 1..Len(order) |-> rows[membersOf(texts, order[g])[1]]]

B_groupTexts(rows, texts) == B_groupFirst(rows, texts, bucketOrder(texts))

B_groupBy(rows, groupBy) ==
    B_groupTexts(rows, [i \in 1..Len(rows) |-> U_groupKey(rows[i], columnList(groupBy))])

\* clean[a] = row[a] ?? "" for the aliases in order
RECURSIVE B_cleanRow(_, _, _)
B_cleanRow(row, tokens, clean) ==
    IF tokens = <<>> THEN clean
    ELSE B_cleanRow(row, Tail(tokens),
                    Put(clean, Head(tokens).alias, Coalesce(Get(row, Head(tokens).alias), Str(""))))

B_project(rows, tokens) == [i \in 1..Len(rows) |-> B_cleanRow(rows[i], tokens, EmptyRow)]
(***************************************************************************)
(* P: the pipeline engine (src/unnamed/part_001): a select item with       *)
(* function calls is compiled to steps that write temporaries, and the     *)
(* steps and the projection are run for every row                          *)
(***************************************************************************)
\* the entries of the registry the model computes; the registry also holds replace,
\* contains, substr, lpad, rpad and the functions of Math, under lower-case keys too
P_functionNames == {"upper", "lower", "len", "trim", "ltrim", "rtrim", "concat", "instr"}

P_constantNames == {"e", "pi"}

P_reserved ==
    P_functionNames \cup P_constantNames
        \cup {"eval", "select", "from", "as", "true", "false", "and", "or", "not"}

\* String(args[k] ?? "")
P_text(args, k) == String(Coalesce(IF k <= Len(args) THEN args[k] ELSE Undefined, Str("")))

\* idx === -1 ? 0 : idx + 1
P_instr(str, sub) == Num(indexOf(toLowerCase(str), toLowerCase(sub)) + 1)

\* sqlFunctions[name](args)
P_sqlFunctions(name, args) ==
    CASE name = "upper"  -> Str(toUpperCase(P_text(args, 1)))
      [] name = "lower"  -> Str(toLowerCase(P_text(args, 1)))
      [] name = "len"    -> Num(Len(P_text(args, 1)))
      [] name = "trim"   -> Str(trim(P_text(args, 1)))
      [] name = "ltrim"  -> Str(trimStart(P_text(args, 1)))
      [] name = "rtrim"  -> Str(trimEnd(P_text(args, 1)))
      [] name = "concat" -> Str(joinWith(args, ""))
      [] name = "instr"  -> P_instr(P_text(args, 1), P_text(args, 2))

\* /^[a-zA-Z_][a-zA-Z0-9_]*$/.test(token) && !reserved.includes(token.toLowerCase())
P_isColumnName(token) ==
    /\ token # ""
    /\ ~IsDigit(CharAt(token, 0))
    /\ \A i \in 0..(Len(token) - 1) : IsWord(CharAt(token, i))
    /\ toLowerCase(token) \notin P_reserved

\* the start of the run of word characters that ends before index j + 1
RECURSIVE wordStart(_, _)
wordStart(s, j) == IF j >= 0 /\ IsWord(CharAt(s, j)) THEN wordStart(s, j - 1) ELSE j + 1

\* getNestedFunctionCalls: the names of the calls in the order their parentheses
\* close; stack holds the names of the calls that are open at index i
RECURSIVE P_callsAt(_, _, _)
P_callsAt(expr, i, stack) ==
    IF i >= Len(expr) THEN <<>>
    ELSE IF CharAt(expr, i) = "("
         THEN P_callsAt(expr, i + 1, Append(stack, Sub(expr, wordStart(expr, i - 1), i)))
    ELSE IF CharAt(expr, i) = ")"
         THEN <<Last(stack)>> \o P_callsAt(expr, i + 1, SubSeq(stack, 1, Len(stack) - 1))
    ELSE P_callsAt(expr, i + 1, stack)

P_getNestedFunctionCalls(expr) == P_callsAt(expr, 0, <<>>)

\* stack.pop() of an empty stack gives undefined, and last.open throws
P_closesUnopened(expr) == \E i \in 0..(Len(expr) - 1) : depthAt(expr, i) < 0

\* `$t${tempIndex}`
P_temp(k) == "$t" \o natToString(k)

\* while (d > 0 && endIdx < length): the index after the parenthesis that closes
RECURSIVE P_closeEnd(_, _, _)
P_closeEnd(s, endIdx, d) ==
    IF d > 0 /\ endIdx < Len(s)
    THEN P_closeEnd(s, endIdx + 1,
                    IF CharAt(s, endIdx) = "(" THEN d + 1
                    ELSE IF CharAt(s, endIdx) = ")" THEN d - 1 ELSE d)
    ELSE endIdx

\* a => isColumnName(a.trim()) ? "$" + a.trim() : a.trim()
P_stepArg(a) == IF P_isColumnName(trim(a)) THEN "$" \o trim(a) ELSE trim(a)

P_stepArgs(stepArgsRaw) == joinTexts(MapSeq(P_stepArg, split(stepArgsRaw, ",")), ",")

\* text.replace(pat, rep) for a text pattern: the first occurrence; rep has no
\* replacement pattern ("$t" is none)
replaceAt(s, pat, rep, i) ==
    IF i = -1 THEN s ELSE Sub(s, 0, i) \o rep \o Sub(s, i + Len(pat), Len(s))

replaceFirst(s, pat, rep) == replaceAt(s, pat, rep, indexOf(s, pat))

\* the loop over the calls of one token: working is currentTokenWorkingString, fns
\* the names of the calls that are left, k is tempIndex
RECURSIVE P_steps(_, _, _)
RECURSIVE P_stepAt(_, _, _, _)
RECURSIVE P_stepCut(_, _, _, _, _)
P_steps(working, fns, k) ==
    IF fns = <<>> THEN <<>>
    ELSE P_stepAt(working, fns, k, indexOf(working, Head(fns) \o "(") + Len(Head(fns)) + 1)
P_stepAt(working, fns, k, startIdx) ==
    P_stepCut(working, fns, k, startIdx, P_closeEnd(working, startIdx, 1))
P_stepCut(working, fns, k, startIdx, endIdx) ==
    <<[out |-> P_temp(k), fn |-> Head(fns),
       args |-> P_stepArgs(Slice(working, startIdx, endIdx - 1))]>>
        \o P_steps(replaceFirst(working,
                                Slice(working, startIdx - Len(Head(fns)) - 1, endIdx),
                                P_temp(k)),
                   Tail(fns), k + 1)

\* /[+\-*/]/.test(text)
hasArithmetic(text) == \E i \in 0..(Len(text) - 1) : CharAt(text, i) \in {"+", "-", "*", "/"}

\* what one token adds to the pipeline and to the projection, with tempIndex at k
P_tokenCalls(token, k, fns) ==
    IF fns = <<>> THEN [pipeline |-> <<>>, projection |-> <<>>]
    ELSE [pipeline |-> P_steps(token, fns, k), projection |-> <<P_temp(k + Len(fns) - 1)>>]

P_tokenSteps(token, k) ==
    IF P_isColumnName(token) THEN [pipeline |-> <<>>, projection |-> <<token>>]
    ELSE IF hasArithmetic(token) /\ ~includes(token, "(")
         THEN [pipeline |-> <<[out |-> P_temp(k), fn |-> "eval", args |-> token]>>,
               projection |-> <<P_temp(k)>>]
    ELSE P_tokenCalls(token, k, P_getNestedFunctionCalls(token))

\* buildSelectPlan: the loop over the select tokens from token i on
RECURSIVE P_build(_, _, _, _)
RECURSIVE P_buildNext(_, _, _, _, _)
P_build(tokens, i, k, acc) ==
    IF i > Len(tokens) THEN acc
    ELSE P_buildNext(tokens, i, k, acc, P_tokenSteps(tokens[i].expr, k))
P_buildNext(tokens, i, k, acc, part) ==
    P_build(tokens, i + 1, k + Len(part.pipeline),
            [pipeline   |-> acc.pipeline \o part.pipeline,
             projection |-> acc.projection \o part.projection,
             aliases    |-> acc.aliases \o (IF part.projection = <<>> THEN <<>>
                                            ELSE <<tokens[i].alias>>)])

P_buildSelectPlan(selectTokens) ==
    P_build(selectTokens, 1, 0, [pipeline |-> <<>>, projection |-> <<>>, aliases |-> <<>>])

\* a token that is no column and no plain arithmetic goes through
\* getNestedFunctionCalls, which throws on a parenthesis that closes nothing
P_throws(tokens) ==
    \E i \in 1..Len(tokens) :
        /\ ~P_isColumnName(tokens[i].expr)
        /\ ~(hasArithmetic(tokens[i].expr) /\ ~includes(tokens[i].expr, "("))
        /\ P_closesUnopened(tokens[i].expr)

\* parseSQL and buildSelectPlan
P_planOf(tokens, whereIdx, sql) ==
    [ok          |-> ~P_throws(tokens),
     tokens      |-> tokens,
     whereClause |-> IF whereIdx # -1 THEN Clause(trim(SliceFrom(sql, whereIdx + 5)))
                     ELSE NoClause,
     select      |-> IF P_throws(tokens) THEN <<>> ELSE P_buildSelectPlan(tokens)]

P_planIn(sql, lower) ==
    P_planOf(K_getSelectTokensFromPart(
                 trim(Slice(sql, indexOf(lower, "select") + 6, indexOf(lower, "from")))),
             indexOf(lower, "where"), sql)

P_parseSQL(sql) == P_planIn(sql, toLowerCase(sql))

\* a value of JavaScript that the model carries as its text and does not compute:
\* the constants e and pi, a quotient by zero, the value of an expression that is
\* no chain of columns and integer literals with + - * /
Evaluated(text) == [t |-> "eval", n |-> 0, d |-> 1, s |-> text]

\* false, which evaluateExpression returns when the evaluation throws
False == [t |-> "bool", n |-> 0, d |-> 1, s |-> ""]

\* an identifier that is bound to nothing: evaluating it throws a ReferenceError
Unbound == [t |-> "unbound", n |-> 0, d |-> 1, s |-> ""]

ArithOps == {"+", "-", "*", "/"}

\* x / y of two numbers, y not 0
NumDiv(x, y) == Frac((IF y.n < 0 THEN -1 ELSE 1) * x.n * y.d, x.d * Abs(y.n))

\* x op y of two results of Number
JsArith(op, x, y) ==
    IF x.t # "num" \/ y.t # "num" THEN NaN
    ELSE CASE op = "+" -> NumAdd(x, y)
           [] op = "-" -> NumAdd(x, Frac(-y.n, y.d))
           [] op = "*" -> Frac(x.n * y.n, x.d * y.d)
           [] op = "/" -> IF y.n = 0 THEN Evaluated("/0") ELSE NumDiv(x, y)

\* a op b of JavaScript: + concatenates when one side is a string, everything else
\* works on the numbers of both sides
JsBinary(op, a, b) ==
    IF op = "+" /\ (a.t = "str" \/ b.t = "str") THEN Str(String(a) \o String(b))
    ELSE JsArith(op, Number(a), Number(b))

\* the first index >= j that holds no digit
RECURSIVE skipDigits(_, _)
skipDigits(s, j) == IF IsDigit(CharAt(s, j)) THEN skipDigits(s, j + 1) ELSE j

\* the identifiers, integer literals and operators of an expression, white space
\* left out
RECURSIVE lexFrom(_, _)
RECURSIVE lexAt(_, _)
RECURSIVE lexCut(_, _, _, _)
lexFrom(s, i) == lexAt(s, skipSpaces(s, i))
lexAt(s, i) ==
    IF i >= Len(s) THEN <<>>
    ELSE IF IsDigit(CharAt(s, i)) THEN lexCut(s, i, skipDigits(s, i), "num")
    ELSE IF IsWord(CharAt(s, i)) THEN lexCut(s, i, skipWord(s, i), "id")
    ELSE IF CharAt(s, i) \in ArithOps THEN lexCut(s, i, i + 1, "op")
    ELSE lexCut(s, i, i + 1, "other")
lexCut(s, i, e, kind) == <<[kind |-> kind, text |-> Sub(s, i, e)]>> \o lexFrom(s, e)

\* operand, operator, operand, ..., operand
isChain(items) ==
    /\ Len(items) % 2 = 1
    /\ \A k \in 1..Len(items) :
           IF k % 2 = 1 THEN items[k].kind \in {"num", "id"} ELSE items[k].kind = "op"

\* what the replacement of evaluateExpression puts for an identifier: true, false
\* and a function of the registry stay names, then vars, then the row (as
\* JSON.stringify writes the value), then the constants; any other name stays as it is
P_identifier(name, row, vars) ==
    IF toLowerCase(name) \in {"true", "false"} \cup P_functionNames THEN Evaluated(toLowerCase(name))
    ELSE IF Get(vars, name).t # "undef" THEN vars[name]
    ELSE IF Get(row, name).t # "undef" THEN row[name]
    ELSE IF toLowerCase(name) \in P_constantNames THEN Evaluated(toLowerCase(name))
    ELSE Unbound

P_operand(item, row, vars) ==
    IF item.kind = "num" THEN Num(digitsToNat(item.text, 0))
    ELSE P_identifier(item.text, row, vars)

\* the value of a chain: * and / bind before + and -, and equal operators from the
\* left; k is the index of the last + or -, 0 when there is none
RECURSIVE evalTerm(_, _)
evalTerm(vals, ops) ==
    IF ops = <<>> THEN vals[1]
    ELSE JsBinary(Last(ops), evalTerm(SubSeq(vals, 1, Len(vals) - 1), SubSeq(ops, 1, Len(ops) - 1)),
                  Last(vals))

RECURSIVE evalChain(_, _)
RECURSIVE evalSplit(_, _, _)
evalChain(vals, ops) ==
    evalSplit(vals, ops, MaxOr({k \in 1..Len(ops) : ops[k] \in {"+", "-"}}, 0))
evalSplit(vals, ops, k) ==
    IF k = 0 THEN evalTerm(vals, ops)
    ELSE JsBinary(ops[k], evalChain(SubSeq(vals, 1, k), SubSeq(ops, 1, k - 1)),
                  evalTerm(SubSeq(vals, k + 1, Len(vals)), SubSeq(ops, k + 1, Len(ops))))

P_evalValues(vals, ops) ==
    IF \E k \in 1..Len(vals) : vals[k] = Unbound THEN False ELSE evalChain(vals, ops)

P_evalItems(expr, items, row, vars) ==
    IF ~isChain(items) THEN Evaluated(expr)
    ELSE P_evalValues([k \in 1..((Len(items) + 1) \div 2) |-> P_operand(items[2 * k - 1], row, vars)],
                      [k \in 1..((Len(items) - 1) \div 2) |-> items[2 * k].text])

\* evaluateExpression: the identifiers are replaced by their values and the text is
\* run as JavaScript; try / catch turns a throw into false
P_evaluateExpression(expr, row, vars) == P_evalItems(expr, lexFrom(expr, 0), row, vars)

\* /^['"].*['"]$/.test(arg)
isQuoted(arg) ==
    Len(arg) >= 2 /\ CharAt(arg, 0) \in {"'", "\""} /\ CharAt(arg, Len(arg) - 1) \in {"'", "\""}

\* getVal
P_getVal(arg, row, vars) ==
    IF arg = "" THEN Str("")
    ELSE IF startsWith(arg, "$t", 0) THEN Get(vars, arg)
    ELSE IF startsWith(arg, "$", 0) THEN Get(row, SliceFrom(arg, 1))
    ELSE IF toLowerCase(arg) \in P_constantNames THEN Evaluated(toLowerCase(arg))
    ELSE IF isQuoted(arg) THEN Str(removeChars(arg, {"'", "\""}))
    ELSE IF hasArithmetic(arg) THEN P_evaluateExpression(arg, row, vars)
    ELSE Str(arg)

\* step.args.split(",").map(a => a.trim()).map(getVal)
P_resolvedArgs(rawArgs, row, vars) ==
    [i \in 1..Len(rawArgs) |-> P_getVal(trim(rawArgs[i]), row, vars)]

\* the key a step's function is looked up under, as the step spells it
P_registryKeyAsWritten(fn) == fn

\* step.fn.toLowerCase()
P_registryKey(fn) == toLowerCase(fn)

\* one step: a name the registry does not hold leaves the temporary unset
P_step(step, row, vars) ==
    IF step.fn = "eval" THEN Put(vars, step.out, P_evaluateExpression(step.args, row, vars))
    ELSE IF P_registryKey(step.fn) \in P_functionNames
         THEN Put(vars, step.out,
                  P_sqlFunctions(P_registryKey(step.fn),
                                 P_resolvedArgs(split(step.args, ","), row, vars)))
    ELSE vars

RECURSIVE P_runSteps(_, _, _)
P_runSteps(pipeline, row, vars) ==
    IF pipeline = <<>> THEN vars
    ELSE P_runSteps(Tail(pipeline), row, P_step(Head(pipeline), row, vars))

\* obj[aliases[i]] = p.startsWith("$t") ? vars[p] : row[p]
RECURSIVE P_projectFrom(_, _, _, _, _)
P_projectFrom(select, i, row, vars, obj) ==
    IF i > Len(select.projection) THEN obj
    ELSE P_projectFrom(select, i + 1, row, vars,
                       Put(obj, select.aliases[i],
                           IF startsWith(select.projection[i], "$t", 0)
                           THEN Get(vars, select.projection[i])
                           ELSE Get(row, select.projection[i])))

P_executePlan(select, row) ==
    P_projectFrom(select, 1, row, P_runSteps(select.pipeline, row, EmptyRow), EmptyRow)

\* filterRow: a query without WHERE keeps every row.  The criteria of a WHERE clause
\* are evaluated by JavaScript itself; the calls of this engine carry none.
P_filterRow(whereClause, row) == ~(whereClause.has /\ whereClause.text # "")

\* the rows of runQuery: filter, then executePlan for every row that is left
P_runQuery(plan, sourceData) ==
    MapSeq(LAMBDA row : P_executePlan(plan.select, row),
           SelectSeq(sourceData, LAMBDA row : P_filterRow(plan.whereClause, row)))

(***************************************************************************)
(* The inputs: datasets and query texts                                    *)
(***************************************************************************)
\* the longest friends table, the largest LIMIT and the largest OFFSET of the inputs
MaxRows   == 3
MaxLimit  == 2
MaxOffset == 1

\* the longest table of the ORDER BY inputs with mixed values
MixRows == 5

\* the rows the friends tables are made of
FriendPool ==
    << [name |-> Str("Ann"), city |-> Str("NY"), age |-> Num(23)],
       [name |-> Str("Bob"), city |-> Str("LA"), age |-> Num(19)],
       [name |-> Str("Cy"),  city |-> Str("NY"), age |-> Num(20)] >>

Cycle(pool, i) == pool[((i - 1) % Len(pool)) + 1]

\* k rows of the pool, taken in a circle from its row r
Window(pool, r, k) == [i \in 1..k |-> Cycle(pool, r + i - 1)]

TablesUpTo(n) ==
    {Window(p, r, k) : p \in {FriendPool, Reverse(FriendPool)}, r \in 1..Len(FriendPool), k \in 0..n}

FriendTables == TablesUpTo(MaxRows)
ShortTables  == TablesUpTo(MaxRows - 1)
UnitTables   == TablesUpTo(MaxRows - 2)

CityNY == [cityName |-> Str("NY"), code |-> Str("US")]
CitySF == [cityName |-> Str("SF"), code |-> Str("JP")]
CityTables == {<<>>, <<CityNY>>, <<CityNY, CitySF>>, <<CitySF, CityNY, CityNY>>}

\* a table that joins two friends of NY to more rows than a page holds
PagedCities == {<<CityNY, CityNY, CityNY>>}

CountryTables == {<<[ccode |-> Str("US"), country |-> Str("USA")],
                    [ccode |-> Str("FR"), country |-> Str("France")]>>}

Datasets(fs, cs) ==
    {[friends |-> f, cities |-> c, countries |-> k] : f \in fs, c \in cs, k \in CountryTables}

\* a call: the engine, the query text, what the text was written to say, the dataset
Call(e, q, f, d) == [engine |-> e, sql |-> q, form |-> f, db |-> d]

\* LIMIT k [OFFSET m]
LimitText(k, m, hasOffset, ordered) ==
    "SELECT name FROM friends"
        \o (IF ordered THEN " ORDER BY age DESC" ELSE "")
        \o " LIMIT " \o natToString(k)
        \o (IF hasOffset THEN " OFFSET " \o natToString(m) ELSE "")

LimitForms ==
    {[text |-> LimitText(k, m, TRUE, s), k |-> k, m |-> m] :
        k \in 0..MaxLimit, m \in 0..MaxOffset, s \in BOOLEAN}
    \cup
    {[text |-> LimitText(k, 0, FALSE, s), k |-> k, m |-> 0] : k \in 0..MaxLimit, s \in BOOLEAN}

U_LimitCalls ==
    {Call("U", f.text, [family |-> "limit", k |-> f.k, m |-> f.m], d) :
        f \in LimitForms, d \in Datasets(FriendTables, {<<>>})}

\* SELECT city, fn(arg) [AS total] ... GROUP BY city
GroupText(fn, upper, arg, aliased) ==
    "SELECT city, " \o (IF upper THEN toUpperCase(fn) ELSE fn) \o "(" \o arg \o ")"
        \o (IF aliased THEN " AS total" ELSE "")
        \o " FROM friends GROUP BY city"

\* the aggregates and their arguments: * counts the rows
GroupItems ==
    {[fn |-> fn, arg |-> "age"] : fn \in AggNames} \cup {[fn |-> "count", arg |-> "*"]}

U_GroupCalls ==
    {Call("U", GroupText(g.fn, u, g.arg, a),
          [family |-> "group", fn |-> g.fn, arg |-> g.arg,
           alias |-> IF a THEN "total"
                     ELSE (IF u THEN toUpperCase(g.fn) ELSE g.fn) \o "(" \o g.arg \o ")"],
          d) :
        g \in GroupItems, u \in BOOLEAN, a \in BOOLEAN, d \in Datasets(FriendTables, {<<>>})}

\* the accepted spellings of the join kinds
JoinSpellings ==
    { [kind |-> "inner", text |-> "JOIN"],       [kind |-> "inner", text |-> "INNER JOIN"],
      [kind |-> "left",  text |-> "LEFT JOIN"],  [kind |-> "left",  text |-> "LEFT OUTER JOIN"],
      [kind |-> "right", text |-> "RIGHT JOIN"], [kind |-> "right", text |-> "right outer join"],
      [kind |-> "full",  text |-> "FULL JOIN"],  [kind |-> "full",  text |-> "FULL OUTER JOIN"] }

OuterSpellings == {sp \in JoinSpellings : Len(sp.text) > 10}

\* one join, and a chain of two joins
JoinText(sp, l, r) ==
    "SELECT name, cityName FROM friends " \o sp.text \o " cities ON " \o l \o " = " \o r

JoinText2(sp1, sp2) ==
    "SELECT name, cityName, country FROM friends " \o sp1.text
        \o " cities ON city = cityName " \o sp2.text \o " countries ON code = ccode"

JoinCities    == [table |-> "cities",    l |-> "city", r |-> "cityName"]
JoinCountries == [table |-> "countries", l |-> "code", r |-> "ccode"]

JoinForm(kinds, joins, cols) ==
    [family |-> "join", kinds |-> kinds, joins |-> joins, cols |-> cols]

U_JoinCalls ==
    {Call("U", JoinText(sp, "city", "cityName"),
          JoinForm(<<sp.kind>>, <<JoinCities>>, <<"name", "cityName">>), d) :
        sp \in JoinSpellings, d \in Datasets(ShortTables, CityTables)}
    \cup
    {Call("U", JoinText2(sp1, sp2),
          JoinForm(<<sp1.kind, sp2.kind>>, <<JoinCities, JoinCountries>>,
                   <<"name", "cityName", "country">>), d) :
        sp1 \in JoinSpellings, sp2 \in OuterSpellings, d \in Datasets(UnitTables, CityTables)}

\* WHERE: OR-separated groups of AND-separated conditions col op literal
Cond(col, op, lit) == [col |-> col, op |-> op, lit |-> lit]

CondText(c) ==
    c.col \o " " \o c.op \o " "
        \o (IF c.lit.t = "str" THEN "'" \o c.lit.s \o "'" ELSE String(c.lit))

GroupText1(group) == joinTexts([c \in 1..Len(group) |-> CondText(group[c])], " AND ")

WhereText(groups) ==
    "SELECT name FROM friends WHERE "
        \o joinTexts([g \in 1..Len(groups) |-> GroupText1(groups[g])], " OR ")

CompareOps == {"=", "!=", ">", "<", ">=", "<="}

SingleConds ==
    {Cond("age", op, Num(n)) : op \in CompareOps, n \in {19, 20}}
        \cup {Cond("city", op, Str(c)) : op \in {"=", "!="}, c \in {"NY", "ny"}}

EqualConds == {Cond("age", "=", Num(19)), Cond("age", "=", Num(23)), Cond("city", "=", Str("NY"))}

SingleGroups == {<<<<c>>>> : c \in SingleConds}

MixedGroups ==
    {<<<<c1, c2>>>> : c1, c2 \in EqualConds}
        \cup {<<<<c1>>, <<c2>>>> : c1, c2 \in EqualConds}
        \cup {<<<<c1, c2>>, <<c3>>>> : c1, c2, c3 \in EqualConds}

WhereForm(g) == [family |-> "where", groups |-> g]

WhereCalls(e) ==
    {Call(e, WhereText(g), WhereForm(g), d) : g \in SingleGroups, d \in Datasets(ShortTables, {<<>>})}
    \cup
    {Call(e, WhereText(g), WhereForm(g), d) : g \in MixedGroups, d \in Datasets(UnitTables, {<<>>})}

\* ROW_NUMBER() OVER ([PARTITION BY city] [ORDER BY age])
OverText(partitioned, ordered) ==
    (IF partitioned THEN "PARTITION BY city" ELSE "")
        \o (IF partitioned /\ ordered THEN " " ELSE "")
        \o (IF ordered THEN "ORDER BY age" ELSE "")

WindowText(partitioned, ordered, tail) ==
    "SELECT name, city, ROW_NUMBER() OVER (" \o OverText(partitioned, ordered)
        \o ") AS rn FROM friends" \o tail

WindowForm(partitioned, ordered) ==
    [family    |-> "window",
     partition |-> IF partitioned THEN <<"city">> ELSE <<>>,
     order     |-> IF ordered THEN "age" ELSE "",
     alias     |-> "rn"]

WindowCalls(e, tails) ==
    {Call(e, WindowText(p, o, t), WindowForm(p, o), d) :
        p \in BOOLEAN, o \in BOOLEAN, t \in tails, d \in Datasets(FriendTables, {<<>>})}

\* DISTINCT, ORDER BY, the hints, paths that resolve to no table
OtherForm == [family |-> "other"]

U_OtherTexts ==
    { "SELECT DISTINCT city FROM friends ORDER BY city DESC WITH (HeaderColumnUpperCase, OutputJSON)",
      "SELECT name, friends.age FROM data.friends ORDER BY name WITH(Paginate)",
      "SELECT name, cityName FROM friends JOIN cities ON city = cityName WITH(Paginate)",
      "SELECT upper(name) AS n, Name FROM friends WITH(HEADERCOLUMNUPPERCASE)",
      "SELECT name FROM nosuch",
      "SELECT name FROM friends JOIN nosuch ON city = cityName",
      "SELECT name FROM friends RIGHT JOIN data ON city = cityName",
      "SELECT name FROM friends JOIN cities" }

U_OtherCalls ==
    {Call("U", q, OtherForm, d) :
        q \in U_OtherTexts, d \in Datasets(ShortTables, {<<CityNY>>} \cup PagedCities)}

\* SELECT DISTINCT city ... [ORDER BY city] LIMIT k
DistinctText(k, ordered) ==
    "SELECT DISTINCT city FROM friends"
        \o (IF ordered THEN " ORDER BY city" ELSE "")
        \o " LIMIT " \o natToString(k)

U_DistinctCalls ==
    {Call("U", DistinctText(k, o), [family |-> "distinct", k |-> k, ordered |-> o], d) :
        k \in 1..MaxLimit, o \in BOOLEAN, d \in Datasets(FriendTables, {<<>>})}

U_Calls == U_LimitCalls \cup U_GroupCalls \cup U_JoinCalls \cup WhereCalls("U") \cup U_OtherCalls
               \cup U_DistinctCalls

\* the scripting engine: joins with the keys written with and without their table
A_JoinCalls ==
    {Call("A", JoinText([kind |-> "inner", text |-> "JOIN"], l, r),
          JoinForm(<<"inner">>, <<JoinCities>>, <<"name", "cityName">>), d) :
        l \in {"city", "friends.city"}, r \in {"cityName", "cities.cityName"},
        d \in Datasets(ShortTables, CityTables)}

\* texts without a top-level SELECT or without a top-level FROM
MalformedTexts ==
    { "name FROM friends", "SELECT name", "friends", "SELECT name WHERE city = 'NY'",
      "FROM friends", "(SELECT name FROM friends)" }

A_MalformedCalls ==
    {Call("A", q, [family |-> "malformed"], d) :
        q \in MalformedTexts, d \in Datasets(ShortTables, {<<CityNY>>})}

\* a FROM path or a JOIN path that resolves to no table of the dataset
UnknownTexts ==
    { "SELECT name FROM nosuch",
      "SELECT name FROM data.nosuch",
      "SELECT name FROM friends.nosuch",
      "SELECT name FROM friends JOIN nosuch ON city = cityName",
      "SELECT name FROM friends JOIN cities ON city = cityName JOIN data.nosuch ON code = ccode" }

UnknownCalls(e) ==
    {Call(e, q, [family |-> "unknown"], d) :
        q \in UnknownTexts, d \in Datasets(ShortTables, {<<>>, <<CityNY>>})}

A_OtherTexts ==
    { "SELECT name, friends.age AS years FROM data.friends WITH (HeaderColumnUpperCase, OutputJSON);",
      "SELECT name, cityName FROM friends JOIN cities ON city = cityName WITH(Paginate)",
      "SELECT name, Name FROM   friends WITH(HEADERCOLUMNUPPERCASE, paginate)",
      "SELECT name, city AS Name, age AS NAME FROM friends WITH(HeaderColumnUpperCase)",
      "SELECT name FROM data",
      "SELECT name FROM friends JOIN data ON city = cityName" }

A_OtherCalls ==
    {Call("A", q, OtherForm, d) :
        q \in A_OtherTexts, d \in Datasets(ShortTables, {<<CityNY>>} \cup PagedCities)}

\* the hints OutputJSON and HeaderColumnUpperCase in several spellings
HintSpellings ==
    { [text |-> "",                                            json |-> FALSE, upper |-> FALSE],
      [text |-> " WITH(HeaderColumnUpperCase)",                json |-> FALSE, upper |-> TRUE],
      [text |-> " with (HEADERCOLUMNUPPERCASE);",              json |-> FALSE, upper |-> TRUE],
      [text |-> " WITH(OutputJSON)",                           json |-> TRUE,  upper |-> FALSE],
      [text |-> " WITH (outputjson);",                         json |-> TRUE,  upper |-> FALSE],
      [text |-> " with( OUTPUTJSON )",                         json |-> TRUE,  upper |-> FALSE],
      [text |-> " WITH(HeaderColumnUpperCase, OutputJSON)",    json |-> TRUE,  upper |-> TRUE],
      [text |-> " WITH(outputJson , headercolumnuppercase) ;", json |-> TRUE,  upper |-> TRUE] }

\* a row whose texts need escapes in JSON, and a negative number
QuotedFriend == [name |-> Str("A\"b\\c"), city |-> Str("N\tY"), age |-> Num(-5)]

JsonTables == ShortTables \cup {<<QuotedFriend>>, <<FriendPool[1], QuotedFriend>>}

HintCalls(e) ==
    {Call(e, "SELECT name, age, city FROM friends" \o h.text,
          [family |-> "json", cols |-> <<"name", "age", "city">>, json |-> h.json, upper |-> h.upper], d) :
        h \in HintSpellings, d \in Datasets(JsonTables, {<<>>})}

\* joins of tables that share the column name: the select items are written with
\* their table, with and without an alias
NamedNY == [cityName |-> Str("NY"), name |-> Str("Gotham")]
NamedLA == [cityName |-> Str("LA"), name |-> Str("Angels")]
NamedCityTables == {<<NamedNY>>, <<NamedLA, NamedNY>>}

QualifiedItem(table, col, as) == [table |-> table, col |-> col, as |-> as]

ItemText(it) == it.table \o "." \o it.col \o (IF it.as = "" THEN "" ELSE " AS " \o it.as)

QualifiedLists ==
    { <<QualifiedItem("friends", "name", "")>>,
      <<QualifiedItem("cities", "name", "")>>,
      <<QualifiedItem("friends", "name", "fn"), QualifiedItem("cities", "name", "cn")>>,
      <<QualifiedItem("cities", "name", "cn"), QualifiedItem("friends", "name", "")>> }

SharedText(items, l, r) ==
    "SELECT " \o joinTexts(MapSeq(ItemText, items), ", ")
        \o " FROM friends JOIN cities ON " \o l \o " = " \o r

A_SharedCalls ==
    {Call("A", SharedText(items, l, "cityName"), [family |-> "shared", items |-> items], d) :
        items \in QualifiedLists, l \in {"city", "friends.city"},
        d \in Datasets(ShortTables, NamedCityTables)}

A_Calls ==
    A_JoinCalls \cup A_MalformedCalls \cup UnknownCalls("A") \cup WhereCalls("A") \cup A_OtherCalls
        \cup HintCalls("A") \cup A_SharedCalls

\* the single-function engine
X_OtherTexts ==
    { "SELECT name, cities.code AS c FROM data.friends JOIN $cities ON friends.city = cityName WITH(HeaderColumnUpperCase)",
      "SELECT name FROM friends JOIN cities",
      "SELECT name FROM friends WHERE name CONTAINS 'n' OR age > 19 AND age < 23 WITH(OutputJSON);",
      "SELECT name FROM nosuch" }

X_OtherCalls ==
    {Call("X", q, OtherForm, d) : q \in X_OtherTexts, d \in Datasets(ShortTables, {<<CityNY>>})}

X_Calls == WindowCalls("X", {""}) \cup X_OtherCalls

\* the window engine
K_OtherTexts ==
    { "SELECT city, name FROM friends GROUP BY city ORDER BY city DESC;",
      "SELECT name AS n, age FROM friends ORDER BY age DESC, name",
      "SELECT name FROM nosuch" }

K_OtherCalls ==
    {Call("K", q, OtherForm, d) : q \in K_OtherTexts, d \in Datasets(ShortTables, {<<>>})}

K_Calls == WindowCalls("K", {"", " GROUP BY city, name"}) \cup K_OtherCalls

\* the window engine with top-level clauses: ORDER BY col [dir] over a column of
\* numeric and other strings
MixPool ==
    << [name |-> Str("a"), age |-> Str("10")],
       [name |-> Str("b"), age |-> Str("9")],
       [name |-> Str("c"), age |-> Str("5a")],
       [name |-> Str("d"), age |-> Str("1b")],
       [name |-> Str("e"), age |-> Str("30")] >>

MixTables ==
    {Window(p, r, k) : p \in {MixPool, Reverse(MixPool)}, r \in 1..Len(MixPool), k \in 0..MixRows}

DirSpellings == {"", " ASC", " DESC", " asc", " desc"}

DirOf(spelling) == IF toUpperCase(trim(spelling)) = "DESC" THEN "DESC" ELSE "ASC"

Item(col, spelling) == [col |-> col, spelling |-> spelling, dir |-> DirOf(spelling)]

OrderText(cols, items) ==
    "SELECT " \o cols \o " FROM friends ORDER BY "
        \o joinTexts([i \in 1..Len(items) |-> items[i].col \o items[i].spelling], ", ")

OrderForm(items) == [family |-> "order", items |-> items]

B_MixCalls ==
    {Call("B", OrderText("name, age", <<Item("age", sp)>>), OrderForm(<<Item("age", sp)>>), d) :
        sp \in {"", " ASC", " DESC"}, d \in Datasets(MixTables, {<<>>})}

\* ORDER BY lists of one, two and three items
OrderLists ==
    {<<Item(c, sp)>> : c \in {"city", "age", "name"}, sp \in DirSpellings}
    \cup {<<Item("city", sp1), Item(c, sp2)>> : c \in {"age", "name"}, sp1 \in DirSpellings, sp2 \in DirSpellings}
    \cup {<<Item("city", sp1), Item("city", sp2), Item("age", sp3)>> :
            sp1 \in {"", " DESC"}, sp2 \in {" ASC", " desc"}, sp3 \in {"", " DESC"}}

B_OrderCalls ==
    {Call("B", OrderText("name, city, age", items), OrderForm(items), d) :
        items \in OrderLists, d \in Datasets(FriendTables, {<<>>})}

\* GROUP BY one or two columns
ByText(cols) == "SELECT name, city, age FROM friends GROUP BY " \o joinTexts(cols, ", ")

ByLists == {<<"age">>, <<"city">>, <<"name">>, <<"city", "age">>, <<"age", "city">>}

B_GroupCalls ==
    {Call("B", ByText(cols), [family |-> "by", cols |-> cols], d) :
        cols \in ByLists, d \in Datasets(FriendTables, {<<>>})}

B_OtherTexts ==
    { "SELECT city, name, nosuch AS n FROM data.friends GROUP BY city ORDER BY city DESC;",
      "SELECT name FROM nosuch" }

B_OtherCalls ==
    {Call("B", q, OtherForm, d) : q \in B_OtherTexts, d \in Datasets(ShortTables, {<<>>})}

B_Calls ==
    B_MixCalls \cup B_OrderCalls \cup B_GroupCalls \cup WindowCalls("B", {"", " ORDER BY rn DESC"})
        \cup B_OtherCalls

\* the pipeline engine: one call of a registry function, its name spelled in lower
\* case, in upper case and with a capital first letter
CallArgs ==
    [f \in P_functionNames |->
        CASE f = "lower"  -> <<[kind |-> "col", text |-> "city"]>>
          [] f = "trim"   -> <<[kind |-> "lit", text |-> " Ab "]>>
          [] f = "ltrim"  -> <<[kind |-> "lit", text |-> "  hello"]>>
          [] f = "concat" -> <<[kind |-> "col", text |-> "name"], [kind |-> "lit", text |-> "-"],
                               [kind |-> "col", text |-> "city"]>>
          [] f = "instr"  -> <<[kind |-> "col", text |-> "name"], [kind |-> "lit", text |-> "N"]>>
          [] OTHER        -> <<[kind |-> "col", text |-> "name"]>>]

ArgText(a) == IF a.kind = "lit" THEN "'" \o a.text \o "'" ELSE a.text

Capitalized(f) == toUpperCase(Sub(f, 0, 1)) \o Sub(f, 1, Len(f))

CallSpellings(f) == {f, toUpperCase(f), Capitalized(f)}

CallText(sp, args) ==
    "select name, " \o sp \o "(" \o joinTexts(MapSeq(ArgText, args), ", ") \o ") AS v from data.$friends"

P_CallCalls ==
    {Call("P", CallText(c.sp, CallArgs[c.f]),
          [family |-> "call", fn |-> c.f, spelling |-> c.sp, args |-> CallArgs[c.f]], d) :
        c \in UNION {{[f |-> f, sp |-> sp] : sp \in CallSpellings(f)} : f \in P_functionNames},
        d \in Datasets(ShortTables, {<<>>})}

P_OtherTexts ==
    { "SELECT Upper(Trim(name)) AS n, age, nosuch(city) AS c FROM friends",
      "SELECT LEN(concat(upper(name), lower(city))) AS n, age + 1 AS next, 'x' FROM friends",
      "SELECT upper(name)) AS n FROM friends" }

P_OtherCalls ==
    {Call("P", q, OtherForm, d) : q \in P_OtherTexts, d \in Datasets(ShortTables, {<<>>})}

P_Calls == P_CallCalls \cup P_OtherCalls

\* select items that name a column the rows do not have, or have with null
NullCity == [name |-> Str("Dee"), city |-> Null, age |-> Num(30)]
NullTables == {<<NullCity>>, <<FriendPool[1], NullCity>>, <<NullCity, FriendPool[2]>>}

MissingItems ==
    << [col |-> "name", key |-> "name"], [col |-> "nosuch", key |-> "nosuch"],
       [col |-> "city", key |-> "town"], [col |-> "zip", key |-> "z"] >>

MissingText == "SELECT name, nosuch, city AS town, zip AS z FROM friends"

MissingCalls(e) ==
    {Call(e, MissingText, [family |-> "missing", items |-> MissingItems], d) :
        d \in Datasets(ShortTables \cup NullTables, {<<>>})}

\* the four ways to write the path of a table, in FROM and in JOIN position
PathSpellings(t) == {t, "$" \o t, "data." \o t, "data.$" \o t}

FromPathCalls(e) ==
    {Call(e, "SELECT name FROM " \o p, [family |-> "path", at |-> "from", path |-> p], d) :
        p \in PathSpellings("friends"), d \in Datasets(ShortTables, {<<>>})}

JoinPathCalls(e) ==
    {Call(e, "SELECT name, cityName FROM friends JOIN " \o p \o " ON city = cityName",
          [family |-> "path", at |-> "join", path |-> p], d) :
        p \in PathSpellings("cities"), d \in Datasets(ShortTables, {<<CityNY>>, <<CityNY, CitySF>>})}

PathCalls ==
    UNION {FromPathCalls(e) : e \in {"U", "A", "X", "K", "B"}}
        \cup UNION {JoinPathCalls(e) : e \in {"U", "A", "X"}}

\* select items that are arithmetic over the column age, whose value is a number in
\* some rows and a numeric string in others
TextAged == [name |-> Str("Eve"), city |-> Str("LA"), age |-> Str("30")]
AgedTables == ShortTables \cup {<<TextAged>>, <<FriendPool[1], TextAged>>}

ArithItems ==
    { [text |-> "age - 2",  f |-> "less2"],   [text |-> "age*2-2",     f |-> "twiceLess2"],
      [text |-> "age + 1",  f |-> "plus1"],   [text |-> "2 + age * 3", f |-> "thricePlus2"],
      [text |-> "age / 2",  f |-> "half"],    [text |-> "age+age",     f |-> "twice"] }

ArithCalls ==
    {Call("P", "SELECT name, " \o it.text \o " AS v FROM data.$friends",
          [family |-> "arith", f |-> it.f, text |-> it.text], d) :
        it \in ArithItems, d \in Datasets(AgedTables, {<<>>})}

\* the predicates of HAVING: the aggregate by its expression text or by its alias
HavingPredicates == {"count(*) > 1", "total > 1"}

HavingText(p) ==
    "SELECT city, count(*) AS total FROM friends GROUP BY city HAVING " \o p

HavingCalls ==
    {Call("U", HavingText(p), [family |-> "having", predicate |-> p], d) :
        p \in HavingPredicates, d \in Datasets(FriendTables, {<<>>})}

\* rows whose (name, city) tuples differ but read alike once joined with |, and a row
\* without a city beside one with the empty city
ShapePool ==
    << [name |-> Str("a|b"), city |-> Str("c")],
       [name |-> Str("a"), city |-> Str("b|c")],
       [name |-> Str("x")],
       [name |-> Str("x"), city |-> Str("")] >>

ShapeTables == {Window(ShapePool, r, k) : r \in 1..Len(ShapePool), k \in 0..MaxRows}

BucketTexts ==
    { [stage |-> "window",
       text  |-> "SELECT name, city, ROW_NUMBER() OVER (PARTITION BY name, city) AS rn FROM friends"],
      [stage |-> "group",
       text  |-> "SELECT name, city FROM friends GROUP BY name, city"] }

BucketCalls ==
    {Call("B", q.text, [family |-> "buckets", stage |-> q.stage, columns |-> <<"name", "city">>], d) :
        q \in BucketTexts, d \in Datasets(ShapeTables, {<<>>})}

\* ROW_NUMBER() OVER (...) in a query that also groups by city
GroupWindowCalls(e) ==
    {Call(e, WindowText(p, o, " GROUP BY city"),
          [family    |-> "groupwindow",
           partition |-> IF p THEN <<"city">> ELSE <<>>,
           order     |-> IF o THEN "age" ELSE "",
           alias     |-> "rn"],
          d) :
        p \in BOOLEAN, o \in BOOLEAN, d \in Datasets(FriendTables, {<<>>})}

\* ORDER BY a select alias: the column c exists only in the projected rows
AliasOrderText(spelling) == "SELECT name, city AS c FROM friends ORDER BY c" \o spelling

AliasOrderCalls ==
    {Call("U", AliasOrderText(sp), [family |-> "orderalias", by |-> <<Item("city", sp)>>], d) :
        sp \in {"", " DESC"}, d \in Datasets(FriendTables, {<<>>})}

\* columns whose names begin with a clause keyword, and one whose name does not
KeywordColumns == {"fromDate", "limit_val", "whereabouts", "since"}

KeywordPool ==
    << [name |-> Str("Ann"), fromDate |-> Str("d1"), limit_val |-> Num(1),
        whereabouts |-> Str("w1"), since |-> Str("s1")],
       [name |-> Str("Bob"), fromDate |-> Str("d2"), limit_val |-> Num(2),
        whereabouts |-> Str("w2"), since |-> Str("s2")] >>

KeywordTables == {Window(KeywordPool, r, k) : r \in 1..Len(KeywordPool), k \in 0..MaxRows}

KeywordCalls ==
    {Call(e, "SELECT name, " \o c \o " FROM friends", [family |-> "keyword", column |-> c], d) :
        e \in {"U", "A", "B"}, c \in KeywordColumns, d \in Datasets(KeywordTables, {<<>>})}

\* rows without a value in the join key: a null city, no city, a null cityName, no cityName
NoCity     == [name |-> Str("Eli"), age |-> Num(31)]
NullName   == [cityName |-> Null, code |-> Str("US")]
NoName     == [code |-> Str("FR")]

KeylessFriends == {<<NullCity>>, <<NoCity>>, <<FriendPool[1], NullCity>>, <<NoCity, FriendPool[1]>>}
KeylessCities  == {<<NullName>>, <<NoName>>, <<CityNY, NullName>>, <<NoName, CityNY>>}

\* a join on keys without a value, and a join on columns that no row has
KeylessCalls ==
    {Call("A", JoinText([kind |-> "inner", text |-> "JOIN"], "city", "cityName"),
          [family |-> "keyless", l |-> "city", r |-> "cityName"], d) :
        d \in Datasets(KeylessFriends, KeylessCities)}
    \cup
    {Call("A", JoinText([kind |-> "inner", text |-> "JOIN"], "nosuch", "nokey"),
          [family |-> "keyless", l |-> "nosuch", r |-> "nokey"], d) :
        d \in Datasets(ShortTables, CityTables)}

Calls == U_Calls \cup A_Calls \cup X_Calls \cup K_Calls \cup B_Calls \cup P_Calls
    \cup MissingCalls("A") \cup MissingCalls("U") \cup MissingCalls("K") \cup MissingCalls("B")
    \cup PathCalls
    \cup ArithCalls
    \cup HavingCalls
    \cup BucketCalls
    \cup GroupWindowCalls("B")
    \cup AliasOrderCalls
    \cup KeywordCalls
    \cup KeylessCalls

(***************************************************************************)
(* The state of one call of executeQuery                                   *)
(***************************************************************************)
VARIABLES
    engine,   \* which executeQuery is called
    sql,      \* the query text
    form,     \* what the query text was written to say
    given,    \* the dataset as the caller passed it
    db,       \* the caller's dataset
    pc,       \* the stage executeQuery is at
    plan,     \* what parseSQL returned
    rows,     \* the local rows
    prev,     \* rows as the stage that ran last found them
    jIdx,     \* the index of the next join of the loop over the joins
    result,   \* the local result
    pageAt,   \* currentIndex of displayWithPager
    rl,       \* the readline interface of the pager: none, open or closed
    shown,    \* the pages the pager has written to the console
    asked,    \* the answers to the questions the pager has put
    outcome   \* what the call returned or threw

call == <<engine, sql, form, given>>
console == <<rl, shown, asked>>
vars == <<engine, sql, form, given, db, pc, plan, rows, prev, jIdx, result, pageAt, rl, shown, asked,
          outcome>>

NoPlan    == [ok |-> FALSE]
NoOutcome == [kind |-> "none"]
Thrown(name)   == [kind |-> "error", name |-> name]
Returned(rs)   == [kind |-> "rows", rows |-> rs]
ReturnedJson(text) == [kind |-> "json", text |-> text]

\* rows per page of displayWithPager
PageSize == 5

Init ==
    \E c \in Calls :
        /\ engine = c.engine
        /\ sql = c.sql
        /\ form = c.form
        /\ given = c.db
        /\ db = c.db
        /\ pc = "start"
        /\ plan = NoPlan
        /\ rows = <<>>
        /\ prev = <<>>
        /\ jIdx = 1
        /\ result = <<>>
        /\ pageAt = 0
        /\ rl = "none"
        /\ shown = <<>>
        /\ asked = <<>>
        /\ outcome = NoOutcome

\* an exception leaves executeQuery
Throw(name) ==
    /\ pc' = "done"
    /\ outcome' = Thrown(name)

IsSet(clause) == clause.has /\ clause.text # ""

HasHint(hints, h) == \E i \in 1..Len(hints) : hints[i] = h

\* displayWithPager asks nothing for an empty result
Paged(hints, res) == HasHint(hints, "paginate") /\ res # <<>>

\* a pager that ends on :q alone
PagerEndsOnQuit(at, res, pageSize, answer) == trim(toLowerCase(answer)) = ":q"

\* the page shown is the last one, or the answer is :q
PagerEnds(at, res, pageSize, answer) ==
    \/ at + pageSize >= Len(res)
    \/ trim(toLowerCase(answer)) = ":q"

\* a page that runs to the end of the rows
PageToEnd(allRows, currentIndex, pageSize) ==
    [startRow |-> currentIndex + 1,
     endRow   |-> Len(allRows),
     page     |-> sliceSeq(allRows, currentIndex, Len(allRows))]

\* what the pager writes for the page at currentIndex: its header and its rows
PageAt(allRows, currentIndex, pageSize) ==
    [startRow |-> currentIndex + 1,
     endRow   |-> Lo(currentIndex + pageSize, Len(allRows)),
     page     |-> sliceSeq(allRows, currentIndex, currentIndex + pageSize)]

\* displayWithPager up to its first question: nothing is opened for an empty result
PagerOpens(allRows, pageSize) ==
    IF allRows = <<>>
    THEN UNCHANGED console
    ELSE /\ rl' = "open"
         /\ shown' = <<PageAt(allRows, 0, pageSize)>>
         /\ UNCHANGED asked

\* displayWithPager from an answer to its next question, or to its end at after
PagerAnswers(pageSize, answer, after) ==
    /\ asked' = Append(asked, answer)
    /\ IF PagerEnds(pageAt, result, pageSize, answer)
       THEN /\ rl' = "closed"
            /\ pc' = after
            /\ UNCHANGED <<pageAt, shown>>
       ELSE /\ pageAt' = pageAt + pageSize
            /\ shown' = Append(shown, PageAt(result, pageAt + pageSize, pageSize))
            /\ UNCHANGED <<pc, rl>>

Answers == {"", ":q", " :Q "}

\* the keys of the result rows in their enumeration order
ResultKeys(hints, tokens) ==
    IF HasHint(hints, "headercolumnuppercase") THEN upperAliasOrder(tokens) ELSE aliasOrder(tokens)

\* return JSON.stringify(result, null, 2) for the outputjson hint, else return result
Output(hints, res, tokens) ==
    IF HasHint(hints, "outputjson") THEN ReturnedJson(stringify(res, ResultKeys(hints, tokens)))
    ELSE Returned(res)

(***************************************************************************)
(* U: executeQuery of the unified engine (src/chatgpt.js 205..340)         *)
(***************************************************************************)
U_Parse ==
    /\ engine = "U" /\ pc = "start"
    /\ plan' = U_parseSQL(sql)
    /\ IF plan'.ok
       THEN pc' = "load" /\ UNCHANGED outcome
       ELSE Throw("TypeError")
    /\ UNCHANGED <<call, console, db, rows, prev, jIdx, result, pageAt>>

U_Load ==
    /\ engine = "U" /\ pc = "load"
    /\ rows' = TableRows(U_resolvePath(plan.base, db), db)
    /\ prev' = <<>>
    /\ jIdx' = 1
    /\ pc' = "join"
    /\ UNCHANGED <<call, console, db, plan, result, pageAt, outcome>>

\* a path that resolves to the dataset itself gives an object without forEach
U_joinThrows(j, left, data) ==
    /\ U_resolvePath(j.table, data).kind = "scope"
    /\ (left # <<>> \/ j.type \in {"right", "full"})

\* one iteration of the loop over p.joins
U_Join ==
    /\ engine = "U" /\ pc = "join" /\ jIdx <= Len(plan.joins)
    /\ IF U_joinThrows(plan.joins[jIdx], rows, db)
       THEN Throw("TypeError") /\ UNCHANGED <<rows, prev, jIdx>>
       ELSE /\ rows' = U_join(rows, plan.joins[jIdx], db)
            /\ prev' = rows
            /\ jIdx' = jIdx + 1
            /\ UNCHANGED <<pc, outcome>>
    /\ UNCHANGED <<call, console, db, plan, result, pageAt>>

U_Where ==
    /\ engine = "U" /\ pc = "join" /\ jIdx > Len(plan.joins)
    /\ rows' = U_where(rows, plan.where)
    /\ prev' = rows
    /\ pc' = "group"
    /\ UNCHANGED <<call, console, db, plan, jIdx, result, pageAt, outcome>>

U_GroupBy ==
    /\ engine = "U" /\ pc = "group"
    /\ rows' = IF IsSet(plan.groupBy) THEN U_groupBy(rows, plan.groupBy.text, plan.tokens) ELSE rows
    /\ prev' = rows
    /\ pc' = "order"
    /\ UNCHANGED <<call, console, db, plan, jIdx, result, pageAt, outcome>>

U_OrderBy ==
    /\ engine = "U" /\ pc = "order"
    /\ rows' = IF IsSet(plan.orderBy) THEN U_orderBy(rows, plan.orderBy.text) ELSE rows
    /\ prev' = rows
    /\ pc' = "limit"
    /\ UNCHANGED <<call, console, db, plan, jIdx, result, pageAt, outcome>>

U_Limit ==
    /\ engine = "U" /\ pc = "limit"
    /\ rows' = U_limit(rows, plan.limit)
    /\ prev' = rows
    /\ pc' = "select"
    /\ UNCHANGED <<call, console, db, plan, jIdx, result, pageAt, outcome>>

U_Select ==
    /\ engine = "U" /\ pc = "select"
    /\ result' = U_select(rows, plan.tokens)
    /\ pc' = "distinct"
    /\ UNCHANGED <<call, console, db, plan, rows, prev, jIdx, pageAt, outcome>>

U_Distinct ==
    /\ engine = "U" /\ pc = "distinct"
    /\ result' = IF plan.distinct /\ ~IsSet(plan.groupBy) THEN U_distinct(result) ELSE result
    /\ pc' = "hints"
    /\ UNCHANGED <<call, console, db, plan, rows, prev, jIdx, pageAt, outcome>>

\* the header hint, then displayWithPager up to its first question
U_Hints ==
    /\ engine = "U" /\ pc = "hints"
    /\ result' = IF HasHint(plan.hints, "headercolumnuppercase")
                 THEN U_headerUpper(result, plan.tokens) ELSE result
    /\ pc' = IF Paged(plan.hints, result') THEN "pager" ELSE "return"
    /\ pageAt' = 0
    /\ IF HasHint(plan.hints, "paginate") THEN PagerOpens(result', PageSize) ELSE UNCHANGED console
    /\ UNCHANGED <<call, db, plan, rows, prev, jIdx, outcome>>

\* displayWithPager: the user answers the question of the page shown
U_Pager ==
    /\ engine = "U" /\ pc = "pager"
    /\ \E answer \in Answers : PagerAnswers(PageSize, answer, "return")
    /\ UNCHANGED <<call, db, plan, rows, prev, jIdx, result, outcome>>

U_Return ==
    /\ engine = "U" /\ pc = "return"
    /\ outcome' = Output(plan.hints, result, plan.tokens)
    /\ pc' = "done"
    /\ UNCHANGED <<call, console, db, plan, rows, prev, jIdx, result, pageAt>>

(***************************************************************************)
(* A: executeQuery of the scripting engine (src/index.js 150..246)         *)
(***************************************************************************)
A_Parse ==
    /\ engine = "A" /\ pc = "start"
    /\ plan' = A_parse(sql)
    /\ IF plan'.ok
       THEN pc' = "load" /\ UNCHANGED outcome
       ELSE Throw("TypeError")
    /\ UNCHANGED <<call, console, db, rows, prev, jIdx, result, pageAt>>

\* if (!baseData) throw new Error(...); the dataset itself is an object without map
A_Load ==
    /\ engine = "A" /\ pc = "load"
    /\ IF A_resolvePath(plan.base, db).kind \in {"undefined", "null"}
       THEN Throw("Error") /\ UNCHANGED <<rows, prev, jIdx>>
       ELSE IF A_resolvePath(plan.base, db).kind = "scope"
       THEN Throw("TypeError") /\ UNCHANGED <<rows, prev, jIdx>>
       ELSE /\ rows' = A_baseRows(TableRows(A_resolvePath(plan.base, db), db), lastSegment(plan.base))
            /\ prev' = <<>>
            /\ jIdx' = 1
            /\ pc' = "join"
            /\ UNCHANGED outcome
    /\ UNCHANGED <<call, console, db, plan, result, pageAt>>

\* nextTableData.forEach is reached once for every existing row
A_joinThrows(joinDef, left, data) ==
    /\ A_resolvePath(joinDef.tablePath, data).kind # "table"
    /\ left # <<>>

\* one iteration of the loop over parsed.joins
A_Join ==
    /\ engine = "A" /\ pc = "join" /\ jIdx <= Len(plan.joins)
    /\ IF A_joinThrows(plan.joins[jIdx], rows, db)
       THEN Throw("TypeError") /\ UNCHANGED <<rows, prev, jIdx>>
       ELSE /\ rows' = A_join(rows, plan.joins[jIdx], db)
            /\ prev' = rows
            /\ jIdx' = jIdx + 1
            /\ UNCHANGED <<pc, outcome>>
    /\ UNCHANGED <<call, console, db, plan, result, pageAt>>

A_Where ==
    /\ engine = "A" /\ pc = "join" /\ jIdx > Len(plan.joins)
    /\ rows' = IF IsSet(plan.where) THEN A_where(rows, plan.where.text) ELSE rows
    /\ prev' = rows
    /\ pc' = "select"
    /\ UNCHANGED <<call, console, db, plan, jIdx, result, pageAt, outcome>>

\* the projection, then displayWithPager up to its first question
A_Select ==
    /\ engine = "A" /\ pc = "select"
    /\ result' = A_select(rows, plan.tokens)
    /\ pc' = IF Paged(plan.hints, result') THEN "pager" ELSE "hints"
    /\ pageAt' = 0
    /\ IF HasHint(plan.hints, "paginate") THEN PagerOpens(result', PageSize) ELSE UNCHANGED console
    /\ UNCHANGED <<call, db, plan, rows, prev, jIdx, outcome>>

A_Pager ==
    /\ engine = "A" /\ pc = "pager"
    /\ \E answer \in Answers : PagerAnswers(PageSize, answer, "hints")
    /\ UNCHANGED <<call, db, plan, rows, prev, jIdx, result, outcome>>

A_Hints ==
    /\ engine = "A" /\ pc = "hints"
    /\ result' = IF HasHint(plan.hints, "headercolumnuppercase")
                 THEN U_headerUpper(result, plan.tokens) ELSE result
    /\ pc' = "return"
    /\ UNCHANGED <<call, console, db, plan, rows, prev, jIdx, pageAt, outcome>>

A_Return ==
    /\ engine = "A" /\ pc = "return"
    /\ outcome' = Output(plan.hints, result, plan.tokens)
    /\ pc' = "done"
    /\ UNCHANGED <<call, console, db, plan, rows, prev, jIdx, result, pageAt>>

(***************************************************************************)
(* X: executeQuery of the single-function engine (src/bindex.js 12..127)   *)
(***************************************************************************)
X_Parse ==
    /\ engine = "X" /\ pc = "start"
    /\ plan' = X_parse(sql)
    /\ pc' = "load"
    /\ UNCHANGED <<call, console, db, rows, prev, jIdx, result, pageAt, outcome>>

X_Load ==
    /\ engine = "X" /\ pc = "load"
    /\ rows' = X_baseRows(X_tableRows(db, plan.base), plan.base)
    /\ prev' = <<>>
    /\ jIdx' = 1
    /\ pc' = "join"
    /\ UNCHANGED <<call, console, db, plan, result, pageAt, outcome>>

\* one iteration of the loop over the table segments; a segment without ON has no
\* joinParts[1] to split
X_Join ==
    /\ engine = "X" /\ pc = "join" /\ jIdx <= Len(plan.joins)
    /\ IF plan.joins[jIdx].ok
       THEN /\ rows' = X_join(rows, plan.joins[jIdx], db)
            /\ prev' = rows
            /\ jIdx' = jIdx + 1
            /\ UNCHANGED <<pc, outcome>>
       ELSE Throw("TypeError") /\ UNCHANGED <<rows, prev, jIdx>>
    /\ UNCHANGED <<call, console, db, plan, result, pageAt>>

X_Where ==
    /\ engine = "X" /\ pc = "join" /\ jIdx > Len(plan.joins)
    /\ rows' = IF plan.where.has THEN X_where(rows, plan.where.text) ELSE rows
    /\ prev' = rows
    /\ pc' = "window"
    /\ UNCHANGED <<call, console, db, plan, jIdx, result, pageAt, outcome>>

\* Process ROW_NUMBER
X_Window ==
    /\ engine = "X" /\ pc = "window"
    /\ rows' = X_rowNumber(rows, plan.tokens)
    /\ prev' = rows
    /\ pc' = "select"
    /\ UNCHANGED <<call, console, db, plan, jIdx, result, pageAt, outcome>>

X_Select ==
    /\ engine = "X" /\ pc = "select"
    /\ result' = X_select(rows, plan.tokens)
    /\ pc' = "return"
    /\ UNCHANGED <<call, console, db, plan, rows, prev, jIdx, pageAt, outcome>>

\* the header hint and the return
X_Return ==
    /\ engine = "X" /\ pc = "return"
    /\ result' = IF HasHint(plan.hints, "headercolumnuppercase")
                 THEN U_headerUpper(result, plan.tokens) ELSE result
    /\ outcome' = Output(plan.hints, result', plan.tokens)
    /\ pc' = "done"
    /\ UNCHANGED <<call, console, db, plan, rows, prev, jIdx, pageAt>>

(***************************************************************************)
(* K: executeQuery of the window engine (src/backup.js 116..150)           *)
(***************************************************************************)
K_Parse ==
    /\ engine = "K" /\ pc = "start"
    /\ plan' = K_parseSQL(sql)
    /\ pc' = "load"
    /\ UNCHANGED <<call, console, db, rows, prev, jIdx, result, pageAt, outcome>>

\* if (!Array.isArray(sourceData)) return []; let rows = sourceData
K_Load ==
    /\ engine = "K" /\ pc = "load"
    /\ IF K_resolvePath(plan.fromClause, db).kind = "table"
       THEN /\ rows' = TableRows(K_resolvePath(plan.fromClause, db), db)
            /\ pc' = "group"
            /\ UNCHANGED outcome
       ELSE /\ outcome' = Returned(<<>>)
            /\ pc' = "done"
            /\ UNCHANGED rows
    /\ prev' = <<>>
    /\ UNCHANGED <<call, console, db, plan, jIdx, result, pageAt>>

K_GroupBy ==
    /\ engine = "K" /\ pc = "group"
    /\ rows' = IF IsSet(plan.groupBy) THEN K_applyGroupBy(rows, plan.groupBy.text, plan.tokens) ELSE rows
    /\ prev' = rows
    /\ pc' = "window"
    /\ UNCHANGED <<call, console, db, plan, jIdx, result, pageAt, outcome>>

\* the rows the window stage writes to are the rows of the source table itself unless
\* applyGroupBy made new ones
K_Window ==
    /\ engine = "K" /\ pc = "window"
    /\ rows' = K_window(rows, plan.tokens)
    /\ prev' = rows
    /\ db' = IF IsSet(plan.groupBy) THEN db
             ELSE [db EXCEPT ![K_resolvePath(plan.fromClause, db).name] = rows']
    /\ pc' = "order"
    /\ UNCHANGED <<call, console, plan, jIdx, result, pageAt, outcome>>

K_OrderBy ==
    /\ engine = "K" /\ pc = "order"
    /\ rows' = IF IsSet(plan.orderClause) THEN K_applyOrderBy(rows, plan.orderClause.text) ELSE rows
    /\ prev' = rows
    /\ pc' = "return"
    /\ UNCHANGED <<call, console, db, plan, jIdx, result, pageAt, outcome>>

\* the projection and the return
K_Return ==
    /\ engine = "K" /\ pc = "return"
    /\ result' = K_project(rows, plan.tokens)
    /\ outcome' = Returned(result')
    /\ pc' = "done"
    /\ UNCHANGED <<call, console, db, plan, rows, prev, jIdx, pageAt>>

(***************************************************************************)
(* B: executeQuery of the window engine with top-level clauses             *)
(* (src/index.js 411..456)                                                 *)
(***************************************************************************)
B_Parse ==
    /\ engine = "B" /\ pc = "start"
    /\ plan' = B_parseSQL(sql)
    /\ pc' = "load"
    /\ UNCHANGED <<call, console, db, rows, prev, jIdx, result, pageAt, outcome>>

\* if (!Array.isArray(sourceData)) return []; the rows are copies of the source rows
B_Load ==
    /\ engine = "B" /\ pc = "load"
    /\ IF K_resolvePath(plan.fromClause, db).kind = "table"
       THEN /\ rows' = TableRows(K_resolvePath(plan.fromClause, db), db)
            /\ pc' = "window"
            /\ UNCHANGED outcome
       ELSE /\ outcome' = Returned(<<>>)
            /\ pc' = "done"
            /\ UNCHANGED rows
    /\ prev' = <<>>
    /\ UNCHANGED <<call, console, db, plan, jIdx, result, pageAt>>

B_Window ==
    /\ engine = "B" /\ pc = "window"
    /\ rows' = B_window(rows, plan.tokens)
    /\ prev' = rows
    /\ pc' = "group"
    /\ UNCHANGED <<call, console, db, plan, jIdx, result, pageAt, outcome>>

B_GroupBy ==
    /\ engine = "B" /\ pc = "group"
    /\ rows' = IF IsSet(plan.groupBy) THEN B_groupBy(rows, plan.groupBy.text) ELSE rows
    /\ prev' = rows
    /\ pc' = "order"
    /\ UNCHANGED <<call, console, db, plan, jIdx, result, pageAt, outcome>>

B_OrderBy ==
    /\ engine = "B" /\ pc = "order"
    /\ rows' = IF IsSet(plan.orderClause) THEN B_applyOrderBy(rows, plan.orderClause.text) ELSE rows
    /\ prev' = rows
    /\ pc' = "return"
    /\ UNCHANGED <<call, console, db, plan, jIdx, result, pageAt, outcome>>

\* the projection and the return
B_Return ==
    /\ engine = "B" /\ pc = "return"
    /\ result' = B_project(rows, plan.tokens)
    /\ outcome' = Returned(result')
    /\ pc' = "done"
    /\ UNCHANGED <<call, console, db, plan, rows, prev, jIdx, pageAt>>

(***************************************************************************)
(* P: runQuery of the pipeline engine (src/unnamed/part_001 271..276)      *)
(***************************************************************************)
\* parseSQL and buildSelectPlan
P_Parse ==
    /\ engine = "P" /\ pc = "start"
    /\ plan' = P_parseSQL(sql)
    /\ IF plan'.ok
       THEN /\ pc' = "run"
            /\ UNCHANGED outcome
       ELSE /\ outcome' = Thrown("TypeError")
            /\ pc' = "done"
    /\ UNCHANGED <<call, console, db, rows, prev, jIdx, result, pageAt>>

\* the caller passes data.friends; the rows are filtered and the plan is executed
P_Run ==
    /\ engine = "P" /\ pc = "run"
    /\ result' = P_runQuery(plan, db.friends)
    /\ outcome' = Returned(result')
    /\ pc' = "done"
    /\ UNCHANGED <<call, console, db, plan, rows, prev, jIdx, pageAt>>

Next ==
    \/ U_Parse \/ U_Load \/ U_Join \/ U_Where \/ U_GroupBy \/ U_OrderBy \/ U_Limit
    \/ U_Select \/ U_Distinct \/ U_Hints \/ U_Pager \/ U_Return
    \/ A_Parse \/ A_Load \/ A_Join \/ A_Where \/ A_Select \/ A_Pager \/ A_Hints \/ A_Return
    \/ X_Parse \/ X_Load \/ X_Join \/ X_Where \/ X_Window \/ X_Select \/ X_Return
    \/ K_Parse \/ K_Load \/ K_GroupBy \/ K_Window \/ K_OrderBy \/ K_Return
    \/ B_Parse \/ B_Load \/ B_Window \/ B_GroupBy \/ B_OrderBy \/ B_Return
    \/ P_Parse \/ P_Run

Spec == Init /\ [][Next]_vars


(***************************************************************************)
(* The pagers called on their own: displayWithPager(allRows, pageSize) and *)
(* startPager(rows, pageSize). result holds the rows, form.pageSize the    *)
(* page size, pageAt the index of the page shown                           *)
(***************************************************************************)
\* the largest page size of the pager calls
MaxPageSize == 3

Replies == Answers \cup {":Q"}

PagerCalls ==
    {[engine |-> e, allRows |-> t, form |-> [family |-> "pager", pageSize |-> s]] :
        e \in {"D", "N"}, t \in MixTables, s \in 1..MaxPageSize}

PagerInit ==
    \E c \in PagerCalls :
        /\ engine = c.engine
        /\ sql = ""
        /\ form = c.form
        /\ given = [friends |-> c.allRows]
        /\ db = given
        /\ pc = "start"
        /\ plan = NoPlan
        /\ rows = <<>>
        /\ prev = <<>>
        /\ jIdx = 1
        /\ result = c.allRows
        /\ pageAt = 0
        /\ rl = "none"
        /\ shown = <<>>
        /\ asked = <<>>
        /\ outcome = NoOutcome

\* displayWithPager up to its first question, or to its return for no rows
D_Open ==
    /\ engine = "D" /\ pc = "start"
    /\ PagerOpens(result, form.pageSize)
    /\ pc' = IF result = <<>> THEN "done" ELSE "pager"
    /\ UNCHANGED <<call, db, plan, rows, prev, jIdx, result, pageAt, outcome>>

\* the user answers the question of the page shown
D_Answer ==
    /\ engine = "D" /\ pc = "pager"
    /\ \E answer \in Replies : PagerAnswers(form.pageSize, answer, "done")
    /\ UNCHANGED <<call, db, plan, rows, prev, jIdx, result, outcome>>

\* startPager compares the answer as it was typed, in lower case
N_pagerEnds(offset, allRows, pageSize, input) ==
    \/ offset + pageSize >= Len(allRows)
    \/ toLowerCase(input) = ":q"

\* startPager up to its first question: the interface is opened before the loop and
\* closed after it, also when the loop shows nothing
N_Open ==
    /\ engine = "N" /\ pc = "start"
    /\ IF result = <<>>
       THEN /\ rl' = "closed"
            /\ pc' = "done"
            /\ UNCHANGED shown
       ELSE /\ rl' = "open"
            /\ pc' = "pager"
            /\ shown' = <<PageAt(result, 0, form.pageSize)>>
    /\ UNCHANGED <<call, db, plan, rows, prev, jIdx, result, pageAt, asked, outcome>>

N_Answer ==
    /\ engine = "N" /\ pc = "pager"
    /\ \E input \in Replies :
          /\ asked' = Append(asked, input)
          /\ IF N_pagerEnds(pageAt, result, form.pageSize, input)
             THEN /\ rl' = "closed"
                  /\ pc' = "done"
                  /\ UNCHANGED <<pageAt, shown>>
             ELSE /\ pageAt' = pageAt + form.pageSize
                  /\ shown' = Append(shown, PageAt(result, pageAt + form.pageSize, form.pageSize))
                  /\ UNCHANGED <<pc, rl>>
    /\ UNCHANGED <<call, db, plan, rows, prev, jIdx, result, outcome>>

PagerNext == D_Open \/ D_Answer \/ N_Open \/ N_Answer

\* the pager is one sequential function, so each of its steps is taken once it can be;
\* that a question is answered is the user's part
PagerSpec ==
    PagerInit /\ [][PagerNext]_vars
        /\ WF_vars(D_Open) /\ WF_vars(D_Answer) /\ WF_vars(N_Open) /\ WF_vars(N_Answer)
(***************************************************************************)
(* The properties                                                          *)
(***************************************************************************)
\* how often a row stands in a sequence of rows
Count(seq, r) == Cardinality({i \in 1..Len(seq) : seq[i] = r})

\* the call returned rows
ReturnedRows == pc = "done" /\ outcome.kind = "rows"

\* C1: a query ending in LIMIT k OFFSET m (m = 0 without OFFSET) returns exactly the
\* slice [m, m+k) of the ordered result, max(0, min(k, n - m)) rows, k = 0 and
\* LIMIT 1 OFFSET 0 included
C1_LimitOffsetSlice ==
    (engine = "U" /\ form.family = "limit" /\ pc = "done") =>
        /\ outcome.kind = "rows"
        /\ outcome.rows = [i \in 1..Len(sliceSeq(prev, form.m, form.m + form.k)) |->
                              [name |-> sliceSeq(prev, form.m, form.m + form.k)[i].name]]
        /\ Len(outcome.rows) = Hi(0, Lo(form.k, Len(prev) - form.m))

\* the values of a bucket the aggregate of the query is computed over
BucketValues(table, city, arg) ==
    [i \in 1..Cardinality({j \in 1..Len(table) : table[j].city = city}) |->
        IF arg = "*" THEN Num(1)
        ELSE SelectSeq(table, LAMBDA r : r.city = city)[i][arg]]

\* C2: every output row of a GROUP BY query carries, under the alias of the aggregate
\* select item, the function computed over all rows of the row's bucket, whatever the
\* letter case of the function name
C2_AggregateOverBucket ==
    (engine = "U" /\ form.family = "group" /\ pc = "done") =>
        /\ outcome.kind = "rows"
        /\ \A i \in 1..Len(outcome.rows) :
              Get(outcome.rows[i], form.alias)
                  = U_sqlFunctions(form.fn, BucketValues(given.friends, outcome.rows[i].city, form.arg))

\* the (left, right) pairs with equal key values
EqualPairs(left, right, j) ==
    {p \in (1..Len(left)) \X (1..Len(right)) :
        ~Nullish(Get(left[p[1]], j.l)) /\ Get(left[p[1]], j.l) = Get(right[p[2]], j.r)}

\* C3: an INNER JOIN on left = right, the keys written with or without their table,
\* emits one merged row for every (left, right) pair with equal key values and no
\* other row
C3_InnerJoinPairs ==
    (engine = "A" /\ form.family = "join" /\ pc = "join" /\ jIdx = 2) =>
        /\ Len(rows) = Cardinality(EqualPairs(prev, db.cities, form.joins[1]))
        /\ \A p \in EqualPairs(prev, db.cities, form.joins[1]) :
              \E i \in 1..Len(rows) :
                  /\ \A c \in DOMAIN db.cities[p[2]] : Get(rows[i], c) = db.cities[p[2]][c]
                  /\ Get(rows[i], "name") = Get(prev[p[1]], "name")

\* the left rows and the right rows of a join that have no partner
UnmatchedLeft(left, right, j) ==
    {i \in 1..Len(left) : \A k \in 1..Len(right) : <<i, k>> \notin EqualPairs(left, right, j)}

UnmatchedRight(left, right, j) ==
    {k \in 1..Len(right) : \A i \in 1..Len(left) : <<i, k>> \notin EqualPairs(left, right, j)}

\* the join the loop of the unified engine has just folded in
JoinDone == engine = "U" /\ form.family = "join" /\ pc = "join" /\ jIdx > 1

\* what a join of the given kind does with the rows without a partner: the preserved
\* side keeps each of them once, the other side none
OuterRows(out, left, right, j, kind) ==
    /\ \A i \in UnmatchedLeft(left, right, j) :
          Count(out, left[i]) = IF kind \in {"left", "full"} THEN Count(left, left[i]) ELSE 0
    /\ \A k \in UnmatchedRight(left, right, j) :
          Count(out, right[k]) = IF kind \in {"right", "full"} THEN Count(right, right[k]) ELSE 0
    /\ Len(out) = Cardinality(EqualPairs(left, right, j))
                      + (IF kind \in {"left", "full"}
                         THEN Cardinality(UnmatchedLeft(left, right, j)) ELSE 0)
                      + (IF kind \in {"right", "full"}
                         THEN Cardinality(UnmatchedRight(left, right, j)) ELSE 0)

\* C4: LEFT and FULL joins keep every left row without a match once, RIGHT and FULL
\* joins every right row without a match once, an INNER join drops them; the columns
\* of the missing side are projected as the NULL marker; this for every join of a
\* chain of joins and every spelling of the kind
C4_OuterJoinUnmatchedRows ==
    /\ JoinDone =>
          OuterRows(rows, prev, db[form.joins[jIdx - 1].table], form.joins[jIdx - 1],
                    form.kinds[jIdx - 1])
    /\ (engine = "U" /\ form.family = "join" /\ pc = "done") =>
          /\ outcome.kind = "rows"
          /\ Len(outcome.rows) = Len(rows)
          /\ \A i \in 1..Len(rows) : \A c \in {form.cols[n] : n \in 1..Len(form.cols)} :
                outcome.rows[i][c] = IF c \in DOMAIN rows[i] THEN rows[i][c] ELSE Str("NULL")

\* the second join of a chain, a FULL OUTER JOIN, has met a left row and a right row
\* without a partner
C4_FullJoinBothSidesUnmatched ==
    /\ JoinDone /\ jIdx = 3
    /\ form.kinds[2] = "full"
    /\ UnmatchedLeft(prev, db.countries, form.joins[2]) # {}
    /\ UnmatchedRight(prev, db.countries, form.joins[2]) # {}
    /\ EqualPairs(prev, db.countries, form.joins[2]) # {}

\* the rows of the partition of row i
PartitionOf(rs, cols, i) ==
    {j \in 1..Len(rs) : \A n \in 1..Len(cols) : Get(rs[j], cols[n]) = Get(rs[i], cols[n])}

\* C5: after the window stage the values of the window alias in every partition are
\* exactly 1..n, n the size of the partition, in the order of the partition's ORDER BY
C5_WindowRanksContiguous ==
    (engine = "X" /\ form.family = "window" /\ pc = "select") =>
        \A i \in 1..Len(rows) :
            /\ {Get(rows[j], form.alias) : j \in PartitionOf(rows, form.partition, i)}
                  = {Num(n) : n \in 1..Cardinality(PartitionOf(rows, form.partition, i))}
            /\ \A j \in PartitionOf(rows, form.partition, i) :
                  (form.order # "" /\ NumLt(rows[i][form.order], rows[j][form.order]))
                      => NumLt(Get(rows[i], form.alias), Get(rows[j], form.alias))

\* the WHERE stage has run
WhereDone ==
    /\ form.family = "where"
    /\ IF engine = "U" THEN pc = "group" ELSE engine = "A" /\ pc = "select"

\* one condition as the evaluator of the engine decides it alone
DecidedAlone(row, c) ==
    IF engine = "U" THEN U_evalPart(row, CondText(c)) ELSE A_evalCond(row, CondText(c))

\* C6: the WHERE stage retains a row exactly when at least one OR group has all of its
\* AND conditions true for the row, and the retained rows keep their order
C6_WhereOrOfAnds ==
    WhereDone =>
        rows = SelectSeq(prev, LAMBDA row :
                   \E g \in 1..Len(form.groups) :
                       \A c \in 1..Len(form.groups[g]) : DecidedAlone(row, form.groups[g][c]))

\* the relation op between a value and a literal: numbers when both are numbers, else
\* the texts without regard to letter case
Relation(op, lt, eq) ==
    CASE op = "="  -> eq
      [] op = "!=" -> ~eq
      [] op = "<"  -> lt
      [] op = "<=" -> lt \/ eq
      [] op = ">"  -> ~lt /\ ~eq
      [] op = ">=" -> ~lt

Holds(v, op, lit) ==
    IF v.t = "num" /\ lit.t = "num" THEN Relation(op, NumLt(v, lit), NumEq(v, lit))
    ELSE Relation(op, StrLt(toLowerCase(String(v)), toLowerCase(String(lit))),
                  toLowerCase(String(v)) = toLowerCase(String(lit)))

\* C7: a single condition col op literal, op one of = != > < >= <=, is true for a row
\* exactly when the relation holds between the row's value and the literal
C7_ConditionRelation ==
    (WhereDone /\ Len(form.groups) = 1 /\ Len(form.groups[1]) = 1) =>
        rows = SelectSeq(prev, LAMBDA row :
                   Holds(Get(row, form.groups[1][1].col), form.groups[1][1].op,
                         form.groups[1][1].lit))

\* C8: executeQuery leaves the caller's dataset as it was given
C8_DatasetUnchanged == db = given

\* C9: a text without a top-level SELECT or FROM gives no plan and no rows
C9_MalformedQueryFails ==
    form.family = "malformed" =>
        /\ plan = NoPlan
        /\ outcome.kind \notin {"rows", "json"}

\* C10: a FROM or JOIN path that resolves to no table ends the call with an error,
\* never with rows
C10_UnknownTableFails ==
    (form.family = "unknown" /\ pc = "done") => outcome.kind = "error"


\* the ORDER BY stage of the window engine has run on a query written as an ORDER BY list
OrderDone == engine = "B" /\ form.family = "order" /\ pc = "return"

\* no two rows tie under the ordering comparison of the column
NoTies(rs, col) ==
    \A i, j \in 1..Len(rs) :
        i # j => \/ K_orderBefore(rs[i], rs[j], <<[expr |-> col, dir |-> "ASC"]>>)
                 \/ K_orderBefore(rs[j], rs[i], <<[expr |-> col, dir |-> "ASC"]>>)

\* C11: for rows whose values of col are pairwise distinct under the ordering
\* comparison, ORDER BY col DESC gives exactly the reverse of what ORDER BY col ASC
\* gives, for numbers, numeric strings, other strings and mixes of them
C11_DescReversesAsc ==
    (OrderDone /\ Len(form.items) = 1 /\ form.items[1].dir = "DESC" /\ NoTies(prev, form.items[1].col)) =>
        rows = Reverse(B_applyOrderBy(prev, form.items[1].col \o " ASC"))

\* the ordering comparison of two values: as numbers when both are numeric, else as texts
ValueLt(x, y) ==
    IF ~isNaN(x) /\ ~isNaN(y) THEN NumLt(Number(x), Number(y)) ELSE StrLt(String(x), String(y))

\* the values of a column are all numeric or all non-numeric strings
Uniform(rs, col) ==
    \/ \A i \in 1..Len(rs) : ~isNaN(rs[i][col])
    \/ \A i \in 1..Len(rs) : rs[i][col].t = "str" /\ isNaN(rs[i][col])

\* a stands before b by the ORDER BY list: the first item they differ on decides, in
\* the direction of that item
RECURSIVE Precedes(_, _, _)
Precedes(a, b, items) ==
    IF items = <<>> THEN FALSE
    ELSE IF ValueLt(a[Head(items).col], b[Head(items).col]) THEN Head(items).dir = "ASC"
    ELSE IF ValueLt(b[Head(items).col], a[Head(items).col]) THEN Head(items).dir = "DESC"
    ELSE Precedes(a, b, Tail(items))

\* a query written as an ORDER BY list over columns of one kind has returned
OrderReturned ==
    /\ engine = "B" /\ form.family = "order" /\ pc = "done"
    /\ \A k \in 1..Len(form.items) : Uniform(given.friends, form.items[k].col)

\* x put into a list that is in order: before the first row that x precedes, and so
\* after every row that it ties with
InsertAt(ordered, x, k) == SubSeq(ordered, 1, k - 1) \o <<x>> \o SubSeq(ordered, k, Len(ordered))

InsertLast(ordered, x, items) ==
    InsertAt(ordered, x,
             MinOr({k \in 1..Len(ordered) : Precedes(x, ordered[k], items)}, Len(ordered) + 1))

\* the first n rows of rs in the order of the list, rows that tie in their input order
RECURSIVE InOrder(_, _, _)
InOrder(rs, n, items) ==
    IF n = 0 THEN <<>> ELSE InsertLast(InOrder(rs, n - 1, items), rs[n], items)

FirstSeen(seq) == RowsAt(seq, SetToSeq({i \in 1..Len(seq) : \A j \in 1..(i - 1) : seq[j] # seq[i]}))

\* the rows of the SELECT DISTINCT city query before DISTINCT and LIMIT: the filtered
\* and ordered input, projected
CityColumn(rs) == [i \in 1..Len(rs) |-> [city |-> rs[i].city]]

\* C13: SELECT DISTINCT ... LIMIT k deduplicates before it limits: no two equal rows,
\* first-seen order, and exactly min(k, d) rows for d distinct projected rows of the
\* whole ordered input
C13_DistinctBeforeLimit ==
    (engine = "U" /\ form.family = "distinct" /\ pc = "done") =>
        /\ outcome.kind = "rows"
        /\ Len(outcome.rows) = Lo(form.k, Len(FirstSeen(CityColumn(prev))))
        /\ outcome.rows = SubSeq(FirstSeen(CityColumn(prev)), 1, Len(outcome.rows))

\* the text of a group key: the values of the grouping columns, joined
KeyText(r, cols) == joinWith([i \in 1..Len(cols) |-> r[cols[i]]], "|")

\* C14: the groups of a GROUP BY query come out in the order in which their keys are
\* first seen in the input rows, for every type of key value, integers included
C14_GroupsInFirstSeenOrder ==
    (engine = "B" /\ form.family = "by" /\ pc = "done") =>
        /\ outcome.kind = "rows"
        /\ [i \in 1..Len(outcome.rows) |-> KeyText(outcome.rows[i], form.cols)]
               = FirstSeen([i \in 1..Len(given.friends) |-> KeyText(given.friends[i], form.cols)])

\* C15: the PAGINATE hint is not consumed by the engine: no call of executeQuery ever
\* stands in the pager, waiting for an answer of the user, before it returns
C15_EngineNeverPages == pc # "pager"

(***************************************************************************)
(* JSON.parse of the text of an array of flat objects.  The scanners hold  *)
(* the index of the next character that is not white space.                *)
(***************************************************************************)
\* the index of the quote that closes the string whose content starts at i
RECURSIVE stringEnd(_, _)
stringEnd(text, i) ==
    IF i >= Len(text) \/ CharAt(text, i) = "\"" THEN i
    ELSE IF CharAt(text, i) = "\\" THEN stringEnd(text, i + 2)
    ELSE stringEnd(text, i + 1)

\* the content of a string without its escapes
RECURSIVE unescaped(_)
unescaped(s) ==
    IF s = "" THEN ""
    ELSE IF Head(s) = "\\" /\ Len(s) >= 2
    THEN (CASE SubSeq(s, 2, 2) = "n" -> "\n"
            [] SubSeq(s, 2, 2) = "t" -> "\t"
            [] OTHER                 -> SubSeq(s, 2, 2)) \o unescaped(SubSeq(s, 3, Len(s)))
    ELSE SubSeq(s, 1, 1) \o unescaped(Tail(s))

\* the index behind a number or a word
RECURSIVE literalEnd(_, _)
literalEnd(text, i) ==
    IF i >= Len(text) \/ IsSpace(CharAt(text, i)) \/ CharAt(text, i) \in {",", "}", "]"} THEN i
    ELSE literalEnd(text, i + 1)

literalValue(s) == IF s = "null" THEN Null ELSE stringToNumber(s)

RECURSIVE parseRows(_, _, _)
RECURSIVE parsePairs(_, _, _, _)
parseValueTo(text, i, e, key, row, acc) ==
    IF CharAt(text, i) = "\""
    THEN parsePairs(text, skipSpaces(text, e + 1), Put(row, key, Str(unescaped(Sub(text, i + 1, e)))), acc)
    ELSE parsePairs(text, skipSpaces(text, e), Put(row, key, literalValue(Sub(text, i, e))), acc)

parseValue(text, i, key, row, acc) ==
    parseValueTo(text, i, IF CharAt(text, i) = "\"" THEN stringEnd(text, i + 1) ELSE literalEnd(text, i),
                 key, row, acc)

\* a key from its opening quote at i to its closing quote at e, the colon, the value
parseKey(text, i, e, row, acc) ==
    parseValue(text, skipSpaces(text, skipSpaces(text, e + 1) + 1), unescaped(Sub(text, i + 1, e)), row, acc)

parsePairs(text, i, row, acc) ==
    IF i >= Len(text) THEN acc
    ELSE IF CharAt(text, i) = "}" THEN parseRows(text, skipSpaces(text, i + 1), Append(acc, row))
    ELSE IF CharAt(text, i) = "," THEN parsePairs(text, skipSpaces(text, i + 1), row, acc)
    ELSE parseKey(text, i, stringEnd(text, i + 1), row, acc)

parseRows(text, i, acc) ==
    IF i >= Len(text) \/ CharAt(text, i) = "]" THEN acc
    ELSE IF CharAt(text, i) = "{" THEN parsePairs(text, skipSpaces(text, i + 1), EmptyRow, acc)
    ELSE parseRows(text, skipSpaces(text, i + 1), acc)

parse(text) == parseRows(text, skipSpaces(text, 0), <<>>)

\* the key a column is returned under
HeaderOf(col, upper) == IF upper THEN toUpperCase(col) ELSE col

\* the rows a query written as SELECT cols FROM friends with its hints is to return
ExpectedRows(table, cols, upper) ==
    [i \in 1..Len(table) |->
        [k \in {HeaderOf(cols[c], upper) : c \in 1..Len(cols)} |->
            table[i][cols[CHOOSE c \in 1..Len(cols) : HeaderOf(cols[c], upper) = k]]]]

\* C16: executeQuery returns a string exactly when the OUTPUTJSON hint is written, in
\* any letter case, and the string parses back to the rows, in their order, that the
\* query returns with its other hints and without OUTPUTJSON (keys in upper case with
\* HEADERCOLUMNUPPERCASE)
C16_JsonIffHintAndSameRows ==
    (form.family = "json" /\ pc = "done") =>
        IF form.json
        THEN /\ outcome.kind = "json"
             /\ parse(outcome.text) = ExpectedRows(given.friends, form.cols, form.upper)
        ELSE /\ outcome.kind = "rows"
             /\ outcome.rows = ExpectedRows(given.friends, form.cols, form.upper)

\* a text with escapes was returned for the two hints together
C16_JsonOfQuotedTexts ==
    /\ form.family = "json" /\ pc = "done"
    /\ form.json /\ form.upper
    /\ outcome.kind = "json"
    /\ Len(given.friends) = 2
    /\ given.friends[2].name = Str("A\"b\\c")
    /\ includes(outcome.text, "\"NAME\": \"A\\\"b\\\\c\"")

\* the header rewriting of one row: every key is in upper case, every key of the row is
\* there in upper case, every value is the value of a key with that upper-case form, and
\* of the key itself when no other key has it
UpperCased(before, after) ==
    /\ \A K \in DOMAIN after : K = toUpperCase(K)
    /\ DOMAIN after = {toUpperCase(k) : k \in DOMAIN before}
    /\ \A K \in DOMAIN after : \E k \in DOMAIN before : toUpperCase(k) = K /\ after[K] = before[k]

ArgValue(a, row) == IF a.kind = "lit" THEN Str(a.text) ELSE Get(row, a.text)

CallDone == engine = "P" /\ pc = "done" /\ form.family = "call"

\* C18: a call of a registered function in a select item of the pipeline engine,
\* its name written in lower case, in upper case or with a capital first letter,
\* gives for every row the registry's function of that name applied to the row's
\* values of the arguments.
C18_CallCaseInsensitive ==
    CallDone =>
        /\ outcome.kind = "rows"
        /\ Len(outcome.rows) = Len(given.friends)
        /\ \A i \in 1..Len(given.friends) :
               Get(outcome.rows[i], "v") =
                   P_sqlFunctions(form.fn, [k \in 1..Len(form.args) |->
                                               ArgValue(form.args[k], given.friends[i])])

\* two friends went through a call spelled with a capital first letter, and the
\* first one's value is a text that has a letter
C18_CapitalizedCallEvaluated ==
    /\ CallDone
    /\ form.spelling = Capitalized(form.fn)
    /\ form.fn = "concat"
    /\ outcome.kind = "rows"
    /\ Len(outcome.rows) = 2
    /\ Get(outcome.rows[1], "v").t = "str"
    /\ Len(Get(outcome.rows[1], "v").s) > 1

(***************************************************************************)
(* C19: the values of a column that the joined tables share                *)
(***************************************************************************)
\* the pairs of a friend and a city an inner join on city = cityName puts together,
\* in the order of the nested loops
JoinedPairs(fs, cs) ==
    Flatten([i \in 1..Len(fs) |->
                SelectSeq([j \in 1..Len(cs) |-> [friends |-> fs[i], cities |-> cs[j]]],
                          LAMBDA p : p.friends.city = p.cities.cityName)])

ItemKey(it) == IF it.as = "" THEN it.col ELSE it.as

SharedJoin == engine = "A" /\ form.family = "shared"

\* C19: after the join of friends and cities, which both have a column name, every
\* joined row has friends.name and cities.name with the values of its friend and of
\* its city, and a select item written T.name, with or without an alias, is returned
\* with the value of name that came from table T.
C19_QualifiedItemProjectsItsTable ==
    /\ (SharedJoin /\ pc = "select") =>
           /\ Len(rows) = Len(JoinedPairs(given.friends, given.cities))
           /\ \A k \in 1..Len(rows) : \A T \in {"friends", "cities"} :
                  Get(rows[k], T \o ".name") = JoinedPairs(given.friends, given.cities)[k][T].name
    /\ (SharedJoin /\ pc = "done") =>
           /\ outcome.kind = "rows"
           /\ Len(outcome.rows) = Len(JoinedPairs(given.friends, given.cities))
           /\ \A k \in 1..Len(outcome.rows) : \A i \in 1..Len(form.items) :
                  Get(outcome.rows[k], ItemKey(form.items[i])) =
                      JoinedPairs(given.friends, given.cities)[k][form.items[i].table][form.items[i].col]

(***************************************************************************)
(* C20: the rows returned have one key set and no absent value             *)
(***************************************************************************)
Absent(v) == v.t \in {"undef", "null"}

\* the returned rows of a query whose items name columns the rows lack or hold null in
NullMarked ==
    /\ outcome.kind = "rows"
    /\ Len(outcome.rows) = Len(given.friends)
    /\ \A k \in 1..Len(outcome.rows) :
           /\ DOMAIN outcome.rows[k] = {form.items[i].key : i \in 1..Len(form.items)}
           /\ \A i \in 1..Len(form.items) :
                  outcome.rows[k][form.items[i].key] =
                      IF Absent(Get(given.friends[k], form.items[i].col)) THEN Str("NULL")
                      ELSE given.friends[k][form.items[i].col]

\* C20: a query whose select items name a column the rows lack (nosuch, zip AS z)
\* and a column that holds null in some row (city AS town) returns, from every
\* executeQuery, one row per source row with exactly the keys name, nosuch, town
\* and z, and the text "NULL" wherever the row has no value; no value is undefined
\* or null.
C20_MissingValuesAreNullMarked ==
    (pc = "done" /\ form.family = "missing") => NullMarked

(***************************************************************************)
(* C21: the spellings of a table path                                      *)
(***************************************************************************)
\* the rows a query of the path family is to return: the names of the friends, or
\* the name and the city name of every friend and city of one city
PathRows ==
    IF form.at = "from" THEN [i \in 1..Len(given.friends) |-> [name |-> given.friends[i].name]]
    ELSE MapSeq(LAMBDA p : [name |-> p.friends.name, cityName |-> p.cities.cityName],
                JoinedPairs(given.friends, given.cities))

\* C21: a table written t, $t, data.t or data.$t, after FROM or after JOIN, is the
\* table t of the dataset in every engine: the query returns the rows it returns
\* for the plain name.
C21_PathSpellingsResolveAlike ==
    (pc = "done" /\ form.family = "path") => outcome = Returned(PathRows)

(***************************************************************************)
(* C22: arithmetic select items                                            *)
(***************************************************************************)
\* what an arithmetic item is written to compute from the number n of the column age
ArithOf(f, n) ==
    CASE f = "less2"       -> Frac(n.n - 2 * n.d, n.d)
      [] f = "twiceLess2"  -> Frac(2 * n.n - 2 * n.d, n.d)
      [] f = "plus1"       -> Frac(n.n + n.d, n.d)
      [] f = "thricePlus2" -> Frac(3 * n.n + 2 * n.d, n.d)
      [] f = "half"        -> Frac(n.n, 2 * n.d)
      [] f = "twice"       -> Frac(2 * n.n, n.d)

ArithDone == engine = "P" /\ pc = "done" /\ form.family = "arith"

\* C22: a select item that is arithmetic over the column age and integer literals is
\* returned, for every row, as the number the arithmetic gives on the number of age,
\* also when age is stored as a numeric string: + adds, and the item is never "NULL".
C22_ArithmeticOnNumbers ==
    ArithDone =>
        /\ outcome.kind = "rows"
        /\ Len(outcome.rows) = Len(given.friends)
        /\ \A i \in 1..Len(given.friends) :
               Get(outcome.rows[i], "v") = ArithOf(form.f, Number(given.friends[i].age))

\* how many rows of rs have the city c
CountOf(rs, c) == Cardinality({i \in 1..Len(rs) : rs[i].city = c})

\* the groups of rs by city, in first-seen order, that have more than one row
LargeGroups(rs) == SelectSeq(FirstSeen(CityColumn(rs)), LAMBDA g : CountOf(rs, g.city) > 1)

HavingDone == pc = "done" /\ form.family = "having"

\* C23: with GROUP BY and HAVING, the HAVING predicate is applied after aggregation:
\* the output holds exactly the groups whose count satisfies count > 1, whether the
\* predicate names the aggregate by its text or by its alias, and the HAVING text is
\* no part of the grouping columns
C23_HavingFiltersGroups ==
    HavingDone =>
        /\ outcome.kind = "rows"
        /\ CityColumn(outcome.rows) = LargeGroups(given.friends)

\* the questions the pager has put: those answered and the one it waits on
PromptsPut == Len(asked) + (IF pc = "pager" THEN 1 ELSE 0)

CeilDiv(n, d) == (n + d - 1) \div d

\* the answers that quit: displayWithPager ignores case and surrounding blanks,
\* startPager ignores case
Quits(answer) ==
    IF engine = "N" THEN toLowerCase(answer) = ":q" ELSE trim(toLowerCase(answer)) = ":q"

QuitsTrimmed(answer) == trim(toLowerCase(answer)) = ":q"

PagerSafe ==
    /\ PromptsPut <= CeilDiv(Len(result), form.pageSize)
    /\ \A i \in 1..Len(asked) :
          /\ Quits(asked[i]) => (i = Len(asked) /\ pc = "done")
          /\ i = CeilDiv(Len(result), form.pageSize) => pc = "done"
    /\ pc = "done" => rl # "open"

PagerSafeTrimmed ==
    /\ PromptsPut <= CeilDiv(Len(result), form.pageSize)
    /\ \A i \in 1..Len(asked) :
          /\ QuitsTrimmed(asked[i]) => (i = Len(asked) /\ pc = "done")
          /\ i = CeilDiv(Len(result), form.pageSize) => pc = "done"
    /\ pc = "done" => rl # "open"

\* C24, as amended: with every question answered in the end the pager returns; it puts
\* at most ceil(n / pageSize) questions, none for no rows, returns on the first answer
\* that is :q in any case (displayWithPager also ignores blanks around it, startPager
\* does not) or on the answer to the last page's question, and has closed the
\* readline interface when it returns if it opened it
C24_PagerTerminates == <>(pc = "done") /\ []PagerSafe

\* C24 as stated: a quit answer with blanks around it ends both pagers
C24_PagerTerminatesTrimmed == <>(pc = "done") /\ []PagerSafeTrimmed

\* startPager went on after " :Q ", was quit by ":Q" with rows left, and closed
C24_QuitBeforeEnd ==
    /\ engine = "N" /\ pc = "done" /\ rl = "closed"
    /\ asked = <<" :Q ", ":Q">>
    /\ pageAt + form.pageSize < Len(result)

\* the j-th chunk of pageSize consecutive rows
Chunk(allRows, j, pageSize) ==
    [startRow |-> (j - 1) * pageSize + 1,
     endRow   |-> Lo(j * pageSize, Len(allRows)),
     page     |-> SubSeq(allRows, (j - 1) * pageSize + 1, Lo(j * pageSize, Len(allRows)))]

NeverQuit == \A i \in 1..Len(asked) : ~QuitsTrimmed(asked[i])

\* C25: in every run of displayWithPager the j-th page shown is rows
\* [(j-1)*pageSize, min(j*pageSize, n)), the current index is a multiple of pageSize
\* below n, no row is shown twice, no page is shown after a quit answer, and without a
\* quit answer every row has been shown exactly once at the end
C25_PagesAreChunks ==
    (engine = "D" /\ form.family = "pager") =>
        /\ \A j \in 1..Len(shown) : shown[j] = Chunk(result, j, form.pageSize)
        /\ pageAt % form.pageSize = 0
        /\ rl # "none" => pageAt < Len(result)
        /\ \A j, k \in 1..Len(shown) : j < k => shown[j].endRow < shown[k].startRow
        /\ \A i \in 1..Len(asked) : QuitsTrimmed(asked[i]) => Len(shown) = i
        /\ (pc = "done" /\ NeverQuit) =>
              /\ Len(shown) = CeilDiv(Len(result), form.pageSize)
              /\ \A i \in 1..Len(result) :
                    \E j \in 1..Len(shown) : shown[j].startRow <= i /\ i <= shown[j].endRow

\* displayWithPager showed 5 rows in pages of 2, the last page short, and was not quit
C25_ShortLastPage ==
    /\ engine = "D" /\ pc = "done" /\ NeverQuit
    /\ form.pageSize = 2 /\ Len(result) = 5
    /\ Len(shown) = 3 /\ Len(shown[3].page) = 1

\* the grouping-column values of a row, component by component
TupleOf(r, columns) == [k \in 1..Len(columns) |-> Get(r, columns[k])]

\* how many of the first i rows have the tuple of row i
RankAmongEqual(rs, i, columns) ==
    Cardinality({j \in 1..i : TupleOf(rs[j], columns) = TupleOf(rs[i], columns)})

DistinctTuples(rs, columns) == {TupleOf(rs[i], columns) : i \in 1..Len(rs)}

\* C26: two rows share a bucket exactly when their tuples of grouping-column values are
\* equal component by component: the window stage numbers a row among the rows of its
\* tuple, and the grouping stage returns one row per tuple
C26_BucketsByTuple ==
    (pc = "done" /\ form.family = "buckets") =>
        /\ outcome.kind = "rows"
        /\ form.stage = "window" =>
              /\ Len(outcome.rows) = Len(given.friends)
              /\ \A i \in 1..Len(outcome.rows) :
                    outcome.rows[i].rn = Num(RankAmongEqual(given.friends, i, form.columns))
        /\ form.stage = "group" =>
              Len(outcome.rows) = Cardinality(DistinctTuples(given.friends, form.columns))

\* the ranks of the output rows that are in the partition of row i
RanksBeside(rs, i, columns) ==
    {rs[j].rn : j \in {k \in 1..Len(rs) : TupleOf(rs[k], columns) = TupleOf(rs[i], columns)}}

RanksTo(n) == {Num(k) : k \in 1..n}

\* C27: ROW_NUMBER() is computed after GROUP BY: in a query that groups by city the
\* output has one row per city, and within each partition of the output the ranks are
\* 1..n for its n rows
C27_RanksOverGroups ==
    (pc = "done" /\ form.family = "groupwindow") =>
        /\ outcome.kind = "rows"
        /\ Len(outcome.rows) = Cardinality(DistinctTuples(given.friends, <<"city">>))
        /\ \A i \in 1..Len(outcome.rows) :
              RanksBeside(outcome.rows, i, form.partition)
                  = RanksTo(Cardinality(RanksBeside(outcome.rows, i, form.partition)))

\* the projection of SELECT name, city AS c
AliasRows(rs) == [i \in 1..Len(rs) |-> [name |-> rs[i].name, c |-> rs[i].city]]

\* C28: ORDER BY is applied to the projected rows: ORDER BY c, where c is the alias of
\* city in the select list, returns the rows ordered by their c, ties in input order
C28_OrderByAlias ==
    (pc = "done" /\ form.family = "orderalias") =>
        outcome = Returned(AliasRows(InOrder(given.friends, Len(given.friends), form.by)))

\* the projection of SELECT name, column
NameAnd(rs, column) == [i \in 1..Len(rs) |-> [k \in {"name", column} |-> rs[i][k]]]

\* C29: a clause keyword that is the beginning of a longer identifier is no clause
\* boundary: SELECT name, fromDate FROM friends is planned as the query with the
\* column renamed, and returns name and that column of every row
C29_KeywordInIdentifier ==
    (pc = "done" /\ form.family = "keyword") =>
        /\ plan.ok
        /\ outcome = Returned(NameAnd(given.friends, form.column))

HasValue(v) == v.t \notin {"undef", "null"}

\* the pairs of a left and a right row whose join keys both have a value, and the same
MatchedPairs(fs, cs, l, r) ==
    {p \in (1..Len(fs)) \X (1..Len(cs)) :
        /\ HasValue(Get(fs[p[1]], l))
        /\ HasValue(Get(cs[p[2]], r))
        /\ String(Get(fs[p[1]], l)) = String(Get(cs[p[2]], r))}

\* C30: a row whose join key has no value matches no row: the inner join returns one
\* row per pair of rows whose keys both have a value and are equal, so none for a
\* condition on columns that no row has
C30_KeylessRowsNeverMatch ==
    (pc = "done" /\ form.family = "keyless") =>
        /\ outcome.kind = "rows"
        /\ Len(outcome.rows) = Cardinality(MatchedPairs(given.friends, given.cities, form.l, form.r))
====
